---- MODULE Spec2Model ----
(***************************************************************************)
(* Model of the two index engines of bptree-hash-index:                    *)
(*   - the B+ tree   (src/src/bplustree/node.py, src/src/bplustree/tree.py) *)
(*   - the extendible hash (src/src/hash/bucket.py, src/src/hash/extendible.py) *)
(* One engine instance is constructed (engines never interact); every      *)
(* public call is one action that runs the whole method.                   *)
(***************************************************************************)
EXTENDS Integers, Sequences, FiniteSets, TLC

\* ------------------------------------------------------------------ bounds
\* Keys offered to the engines are built from 0..MaxKey (Keys, HashKeys).
MaxKey == 4
\* Orders a tree is constructed with are min_order..MaxOrder.
MaxOrder == 4
\* A call is only issued while the read counter is below MaxCount
\* (reset_stats brings the counters back to zero).
MaxCount == 1
\* Bucket capacities a hash is constructed with are min_capacity..MaxCapacity.
MaxCapacity == 2

\* Config.min_order, the floor of max(3, order)
min_order == 3
\* the floor of max(2, bucket_capacity)
min_capacity == 2

RECURSIVE Pow2(_)
Pow2(n) == IF n = 0 THEN 1 ELSE 2 * Pow2(n - 1)

\* Keys offered to the tree.
Keys == 0..MaxKey
\* Keys offered to the hash: 0 and the powers of two below 2^MaxKey, so that
\* several keys agree on their low bits and buckets overflow repeatedly.
HashKeys == {0} \cup {Pow2(i) : i \in 0..(MaxKey - 1)}
AllKeys == Keys \cup HashKeys
\* Two distinguishable record payloads: enough to tell the first record
\* stored under a key from a later one offered for the same key.
Recs == {"r1", "r2"}
None == "None"
NoNode == 0

VARIABLES
    engine,        \* which engine was constructed: "tree" or "hash"
    order,         \* BPlusTree.order
    root,          \* BPlusTree.root (a node id)
    nodes,         \* the node objects, by id (ids are allocation order)
    stats,         \* BPlusTree.stats
    bucket_capacity, \* ExtendibleHash.bucket_capacity
    global_depth,  \* ExtendibleHash.global_depth
    directory,     \* ExtendibleHash.directory (bucket ids, slot i at i + 1)
    buckets,       \* the live Bucket objects, by id
    hstats,        \* ExtendibleHash.stats
    ret,           \* the value returned by the last call
    kv,            \* history: key -> record of its last successful insert not
                   \*          followed by a successful delete, else None
    everDeleted    \* history: some delete has removed a record

treeVars == <<order, root, nodes, stats>>
hashVars == <<bucket_capacity, global_depth, directory, buckets, hstats>>
vars == <<engine, treeVars, hashVars, ret, kv, everDeleted>>

\* ------------------------------------------------------- returned values
RetInit == [op |-> "new", ok |-> TRUE, rec |-> None, list |-> <<>>]
RetBool(o, b) == [op |-> o, ok |-> b, rec |-> None, list |-> <<>>]
RetOpt(o, r) == [op |-> o, ok |-> (r # None), rec |-> r, list |-> <<>>]
RetList(o, l) == [op |-> o, ok |-> TRUE, rec |-> None, list |-> l]

\* ------------------------------------------------------- sequence helpers
Last(s) == s[Len(s)]
Range(s) == {s[i] : i \in DOMAIN s}
\* Python list.insert(pos, x) with a 0-based pos in 0..len
ListInsert(s, pos, x) == SubSeq(s, 1, pos) \o <<x>> \o SubSeq(s, pos + 1, Len(s))
\* Python list.pop(pos) with a 0-based pos: the list without that element
ListPop(s, pos) == SubSeq(s, 1, pos) \o SubSeq(s, pos + 2, Len(s))
\* Python s[a:] and s[:b] with 0-based bounds
From(s, a) == SubSeq(s, a + 1, Len(s))
Upto(s, b) == SubSeq(s, 1, b)

\* ================================================================ B+ tree
\* ---- node.py
LeafNode(keys, records, parent, next, prev) ==
    [leaf |-> TRUE, keys |-> keys, records |-> records, children |-> <<>>,
     parent |-> parent, next |-> next, prev |-> prev]

InternalNode(keys, children, parent) ==
    [leaf |-> FALSE, keys |-> keys, records |-> <<>>, children |-> children,
     parent |-> parent, next |-> NoNode, prev |-> NoNode]

\* is_full with > for >=: a node is split one insert too late
is_full_late(node) == Len(node.keys) > order

is_full(node) == Len(node.keys) >= order

min_keys == (order + 1) \div 2 - 1
is_underflow(node) == Len(node.keys) < min_keys

RECURSIVE binary_search_loop(_, _, _, _)
binary_search_loop(keys, key, left, right) ==
    IF left < right
    THEN LET mid == (left + right) \div 2
         IN IF keys[mid + 1] < key
            THEN binary_search_loop(keys, key, mid + 1, right)
            ELSE binary_search_loop(keys, key, left, mid)
    ELSE left

\* 0-based insertion position of key
binary_search(keys, key) == binary_search_loop(keys, key, 0, Len(keys))

\* LeafNode.insert overwriting the record of a key the leaf already holds
LeafNode_insert_overwrites(node, key, record) ==
    LET pos == binary_search(node.keys, key)
    IN IF pos < Len(node.keys) /\ node.keys[pos + 1] = key
       THEN [ok |-> TRUE, node |-> [node EXCEPT !.records[pos + 1] = record]]
       ELSE [ok |-> TRUE,
             node |-> [node EXCEPT !.keys = ListInsert(@, pos, key),
                                   !.records = ListInsert(@, pos, record)]]

\* LeafNode.insert: [ok, node]
LeafNode_insert(node, key, record) ==
    LET pos == binary_search(node.keys, key)
    IN IF pos < Len(node.keys) /\ node.keys[pos + 1] = key
       THEN [ok |-> FALSE, node |-> node]
       ELSE [ok |-> TRUE,
             node |-> [node EXCEPT !.keys = ListInsert(@, pos, key),
                                   !.records = ListInsert(@, pos, record)]]

\* LeafNode.search: the record or None
LeafNode_search(node, key) ==
    LET pos == binary_search(node.keys, key)
    IN IF pos < Len(node.keys) /\ node.keys[pos + 1] = key
       THEN node.records[pos + 1]
       ELSE None

\* LeafNode.delete: [rec, node]
LeafNode_delete(node, key) ==
    LET pos == binary_search(node.keys, key)
    IN IF pos < Len(node.keys) /\ node.keys[pos + 1] = key
       THEN [rec |-> node.records[pos + 1],
             node |-> [node EXCEPT !.keys = ListPop(@, pos),
                                   !.records = ListPop(@, pos)]]
       ELSE [rec |-> None, node |-> node]

\* LeafNode.split without "new_node.next = self.next": the new leaf ends the chain
LeafNode_split_drops_next(ns, n) ==
    LET self == ns[n]
        mid == Len(self.keys) \div 2
        new == Len(ns) + 1
        new_node == LeafNode(From(self.keys, mid), From(self.records, mid),
                             NoNode, NoNode, n)
        ns1 == Append(ns, new_node)
        ns2 == [ns1 EXCEPT ![n].keys = Upto(self.keys, mid),
                           ![n].records = Upto(self.records, mid),
                           ![n].next = new]
    IN [nodes |-> ns2, new |-> new, promoted |-> new_node.keys[1]]

\* LeafNode.split with mid rounded up, (len + 1) // 2: for an odd number
\* of keys the original leaf keeps the larger half
LeafNode_split_mid_rounded_up(ns, n) ==
    LET self == ns[n]
        mid == (Len(self.keys) + 1) \div 2
        new == Len(ns) + 1
        new_node == LeafNode(From(self.keys, mid), From(self.records, mid),
                             NoNode, self.next, n)
        ns1 == Append(ns, new_node)
        ns2 == [ns1 EXCEPT ![n].keys = Upto(self.keys, mid),
                           ![n].records = Upto(self.records, mid),
                           ![n].next = new]
        ns3 == IF self.next # NoNode
               THEN [ns2 EXCEPT ![self.next].prev = new]
               ELSE ns2
    IN [nodes |-> ns3, new |-> new, promoted |-> new_node.keys[1]]

\* LeafNode.split on node n of arena ns: [nodes, new, promoted]
LeafNode_split(ns, n) ==
    LET self == ns[n]
        mid == Len(self.keys) \div 2
        new == Len(ns) + 1
        new_node == LeafNode(From(self.keys, mid), From(self.records, mid),
                             NoNode, self.next, n)
        ns1 == Append(ns, new_node)
        ns2 == [ns1 EXCEPT ![n].keys = Upto(self.keys, mid),
                           ![n].records = Upto(self.records, mid),
                           ![n].next = new]
        ns3 == IF self.next # NoNode
               THEN [ns2 EXCEPT ![self.next].prev = new]
               ELSE ns2
    IN [nodes |-> ns3, new |-> new, promoted |-> new_node.keys[1]]

\* find_child with the tie broken to the left: key <= k instead of key < k
find_child_index_ties_left(node, key) ==
    LET hits == {i \in 1..Len(node.keys) : key <= node.keys[i]}
    IN IF hits = {}
       THEN Len(node.children)
       ELSE CHOOSE i \in hits : \A j \in hits : i <= j

\* InternalNode.find_child / find_child_index: 1-based index into children
find_child_index(node, key) ==
    LET hits == {i \in 1..Len(node.keys) : key < node.keys[i]}
    IN IF hits = {}
       THEN Len(node.children)
       ELSE CHOOSE i \in hits : \A j \in hits : i <= j

\* insert_child putting the child at pos instead of pos + 1: the new right
\* sibling lands to the left of the node it was split from
insert_child_left_of_node(ns, p, key, child) ==
    LET self == ns[p]
        pos == Cardinality({i \in 1..Len(self.keys) :
                              \A j \in 1..i : self.keys[j] < key})
    IN [ns EXCEPT ![p].keys = ListInsert(@, pos, key),
                  ![p].children = ListInsert(@, pos, child),
                  ![child].parent = p]

\* InternalNode.insert_child on node p of arena ns
insert_child(ns, p, key, child) ==
    LET self == ns[p]
        pos == Cardinality({i \in 1..Len(self.keys) :
                              \A j \in 1..i : self.keys[j] < key})
    IN [ns EXCEPT ![p].keys = ListInsert(@, pos, key),
                  ![p].children = ListInsert(@, pos + 1, child),
                  ![child].parent = p]

\* InternalNode.split without its loop over new_node.children: the moved
\* children keep the old node as their parent
set_parent_skipped(ns, children, p) == ns

\* the loop "for child in new_node.children: child.parent = new_node"
RECURSIVE set_parent(_, _, _)
set_parent(ns, children, p) ==
    IF children = <<>>
    THEN ns
    ELSE set_parent([ns EXCEPT ![Head(children)].parent = p], Tail(children), p)

\* InternalNode.split keeping children[:mid] instead of children[:mid + 1]:
\* the node is left with as many children as keys
InternalNode_split_children_short(ns, n) ==
    LET self == ns[n]
        mid == Len(self.keys) \div 2
        promoted_key == self.keys[mid + 1]
        new == Len(ns) + 1
        new_node == InternalNode(From(self.keys, mid + 1),
                                 From(self.children, mid + 1), NoNode)
        ns1 == Append(ns, new_node)
        ns2 == set_parent(ns1, new_node.children, new)
        ns3 == [ns2 EXCEPT ![n].keys = Upto(self.keys, mid),
                           ![n].children = Upto(self.children, mid)]
    IN [nodes |-> ns3, new |-> new, promoted |-> promoted_key]

\* InternalNode.split that copies the middle key up as a leaf split does:
\* the new node takes keys[mid:], so the promoted key stays in it
InternalNode_split_copies_up(ns, n) ==
    LET self == ns[n]
        mid == Len(self.keys) \div 2
        promoted_key == self.keys[mid + 1]
        new == Len(ns) + 1
        new_node == InternalNode(From(self.keys, mid),
                                 From(self.children, mid + 1), NoNode)
        ns1 == Append(ns, new_node)
        ns2 == set_parent(ns1, new_node.children, new)
        ns3 == [ns2 EXCEPT ![n].keys = Upto(self.keys, mid),
                           ![n].children = Upto(self.children, mid + 1)]
    IN [nodes |-> ns3, new |-> new, promoted |-> promoted_key]

\* InternalNode.split with mid = len(keys) // 2 + 1: the new node gets one
\* key fewer than the code gives it
InternalNode_split_mid_late(ns, n) ==
    LET self == ns[n]
        mid == Len(self.keys) \div 2 + 1
        promoted_key == self.keys[mid + 1]
        new == Len(ns) + 1
        new_node == InternalNode(From(self.keys, mid + 1),
                                 From(self.children, mid + 1), NoNode)
        ns1 == Append(ns, new_node)
        ns2 == set_parent(ns1, new_node.children, new)
        ns3 == [ns2 EXCEPT ![n].keys = Upto(self.keys, mid),
                           ![n].children = Upto(self.children, mid + 1)]
    IN [nodes |-> ns3, new |-> new, promoted |-> promoted_key]

\* InternalNode.split on node n of arena ns: [nodes, new, promoted]
InternalNode_split(ns, n) ==
    LET self == ns[n]
        mid == Len(self.keys) \div 2
        promoted_key == self.keys[mid + 1]
        new == Len(ns) + 1
        new_node == InternalNode(From(self.keys, mid + 1),
                                 From(self.children, mid + 1), NoNode)
        ns1 == Append(ns, new_node)
        ns2 == set_parent(ns1, new_node.children, new)
        ns3 == [ns2 EXCEPT ![n].keys = Upto(self.keys, mid),
                           ![n].children = Upto(self.children, mid + 1)]
    IN [nodes |-> ns3, new |-> new, promoted |-> promoted_key]

\* ---- tree.py.  A tree value T is [root, nodes, stats].
TreeNew == [root |-> 1,
            nodes |-> <<LeafNode(<<>>, <<>>, NoNode, NoNode, NoNode)>>,
            stats |-> [page_reads |-> 0, page_writes |-> 0, splits |-> 0,
                       merges |-> 0, height |-> 1]]

\* BPlusTree._find_leaf: the nodes visited from n down to the leaf
RECURSIVE find_leaf(_, _, _)
find_leaf(ns, n, key) ==
    IF ns[n].leaf
    THEN <<n>>
    ELSE <<n>> \o find_leaf(ns, ns[n].children[find_child_index(ns[n], key)], key)

\* _create_new_root without "self.stats['height'] += 1": the tree gets a new
\* level and the counter stays
create_new_root_height_kept(T, left_child, right_child, key) ==
    LET new_root == Len(T.nodes) + 1
        ns1 == Append(T.nodes, InternalNode(<<key>>, <<left_child, right_child>>, NoNode))
        ns2 == [ns1 EXCEPT ![left_child].parent = new_root,
                           ![right_child].parent = new_root]
    IN [root |-> new_root, nodes |-> ns2,
        stats |-> [T.stats EXCEPT !.page_writes = @ + 1]]

\* BPlusTree._create_new_root
create_new_root(T, left_child, right_child, key) ==
    LET new_root == Len(T.nodes) + 1
        ns1 == Append(T.nodes, InternalNode(<<key>>, <<left_child, right_child>>, NoNode))
        ns2 == [ns1 EXCEPT ![left_child].parent = new_root,
                           ![right_child].parent = new_root]
    IN [root |-> new_root, nodes |-> ns2,
        stats |-> [T.stats EXCEPT !.page_writes = @ + 1, !.height = @ + 1]]

\* _handle_split that grows a new root over the old one at every split,
\* also when the split node has a parent
handle_split_always_new_root(T, n) ==
    LET S == IF T.nodes[n].leaf
             THEN LeafNode_split(T.nodes, n)
             ELSE InternalNode_split(T.nodes, n)
        T1 == [T EXCEPT !.nodes = S.nodes,
                        !.stats.splits = @ + 1,
                        !.stats.page_writes = @ + 2]
    IN create_new_root(T1, T1.root, S.new, S.promoted)

\* BPlusTree._handle_split
RECURSIVE handle_split(_, _)
handle_split(T, n) ==
    LET S == IF T.nodes[n].leaf
             THEN LeafNode_split(T.nodes, n)
             ELSE InternalNode_split(T.nodes, n)
        T1 == [T EXCEPT !.nodes = S.nodes,
                        !.stats.splits = @ + 1,
                        !.stats.page_writes = @ + 2]
        p == T1.nodes[n].parent
    IN IF p = NoNode
       THEN create_new_root(T1, n, S.new, S.promoted)
       ELSE LET T2 == [T1 EXCEPT !.nodes = insert_child(@, p, S.promoted, S.new)]
            IN IF is_full(T2.nodes[p]) THEN handle_split(T2, p) ELSE T2

\* BPlusTree.insert: [T, ok]
tree_insert(T, key, record) ==
    LET path == find_leaf(T.nodes, T.root, key)
        leaf == Last(path)
        T1 == [T EXCEPT !.stats.page_reads = @ + (Len(path) - 1) + 1]
        r == LeafNode_insert(T.nodes[leaf], key, record)
    IN IF ~r.ok
       THEN [T |-> T1, ok |-> FALSE]
       ELSE LET T2 == [T1 EXCEPT !.nodes[leaf] = r.node,
                                 !.stats.page_writes = @ + 1]
            IN [T |-> IF is_full(T2.nodes[leaf]) THEN handle_split(T2, leaf) ELSE T2,
                ok |-> TRUE]

\* BPlusTree.search: [T, rec]
tree_search(T, key) ==
    LET path == find_leaf(T.nodes, T.root, key)
    IN [T |-> [T EXCEPT !.stats.page_reads = @ + (Len(path) - 1) + 1],
        rec |-> LeafNode_search(T.nodes[Last(path)], key)]

\* the loop "for i, key in enumerate(leaf.keys)" of BPlusTree.range_search
\* from position i (1-based) on: [list, done]; done tells that a key above
\* end_key was met (the "return results" inside the loop)
RECURSIVE scan_leaf(_, _, _, _)
scan_leaf(node, i, start_key, end_key) ==
    IF i > Len(node.keys)
    THEN [list |-> <<>>, done |-> FALSE]
    ELSE IF node.keys[i] > end_key
    THEN [list |-> <<>>, done |-> TRUE]
    ELSE LET rest == scan_leaf(node, i + 1, start_key, end_key)
         IN IF start_key <= node.keys[i]
            THEN [rest EXCEPT !.list = <<node.records[i]>> \o @]
            ELSE rest

\* the range_search scan ending at the first leaf without keys
RECURSIVE range_scan_stops_at_empty_leaf(_, _, _, _)
range_scan_stops_at_empty_leaf(ns, n, start_key, end_key) ==
    IF n = NoNode \/ ns[n].keys = <<>>
    THEN [list |-> <<>>, reads |-> 0]
    ELSE LET here == scan_leaf(ns[n], 1, start_key, end_key)
         IN IF here.done
            THEN [list |-> here.list, reads |-> 0]
            ELSE LET rest == range_scan_stops_at_empty_leaf(ns, ns[n].next, start_key, end_key)
                 IN [list |-> here.list \o rest.list,
                     reads |-> rest.reads + (IF ns[n].next # NoNode THEN 1 ELSE 0)]

\* The "while leaf is not None" loop of BPlusTree.range_search from leaf n
\* on: [list, reads], reads counting the leaves moved on to
RECURSIVE range_scan(_, _, _, _)
range_scan(ns, n, start_key, end_key) ==
    IF n = NoNode
    THEN [list |-> <<>>, reads |-> 0]
    ELSE LET here == scan_leaf(ns[n], 1, start_key, end_key)
         IN IF here.done
            THEN [list |-> here.list, reads |-> 0]
            ELSE LET rest == range_scan(ns, ns[n].next, start_key, end_key)
                 IN [list |-> here.list \o rest.list,
                     reads |-> rest.reads + (IF ns[n].next # NoNode THEN 1 ELSE 0)]

\* range_search without its "if start_key > end_key: return []": it descends
\* and scans also for an inverted range
tree_range_search_unguarded(T, start_key, end_key) ==
    LET path == find_leaf(T.nodes, T.root, start_key)
        scan == range_scan(T.nodes, Last(path), start_key, end_key)
    IN [T |-> [T EXCEPT !.stats.page_reads = @ + (Len(path) - 1) + 1 + scan.reads],
        list |-> scan.list]

\* BPlusTree.range_search: [T, list]
tree_range_search(T, start_key, end_key) ==
    IF start_key > end_key
    THEN [T |-> T, list |-> <<>>]
    ELSE LET path == find_leaf(T.nodes, T.root, start_key)
             scan == range_scan(T.nodes, Last(path), start_key, end_key)
         IN [T |-> [T EXCEPT !.stats.page_reads = @ + (Len(path) - 1) + 1 + scan.reads],
             list |-> scan.list]

\* delete with a rebalancing step the code does not have: a leaf that
\* falls below the minimum key count is counted as merged and, when it
\* became empty, is taken out of the leaf chain
tree_delete_unlinks_underfull_leaf(T, key) ==
    LET path == find_leaf(T.nodes, T.root, key)
        leaf == Last(path)
        T1 == [T EXCEPT !.stats.page_reads = @ + (Len(path) - 1) + 1]
        r == LeafNode_delete(T.nodes[leaf], key)
        T2 == [T1 EXCEPT !.nodes[leaf] = r.node, !.stats.page_writes = @ + 1]
        prev == r.node.prev
        T3 == IF r.node.keys = <<>> /\ prev # NoNode
              THEN [T2 EXCEPT !.nodes[prev].next = r.node.next]
              ELSE T2
    IN IF r.rec # None
       THEN [T |-> IF is_underflow(r.node) /\ leaf # T.root
                   THEN [T3 EXCEPT !.stats.merges = @ + 1]
                   ELSE T2,
             rec |-> r.rec]
       ELSE [T |-> T1, rec |-> None]

\* BPlusTree.delete: [T, rec]
tree_delete(T, key) ==
    LET path == find_leaf(T.nodes, T.root, key)
        leaf == Last(path)
        T1 == [T EXCEPT !.stats.page_reads = @ + (Len(path) - 1) + 1]
        r == LeafNode_delete(T.nodes[leaf], key)
    IN IF r.rec # None
       THEN [T |-> [T1 EXCEPT !.nodes[leaf] = r.node, !.stats.page_writes = @ + 1],
             rec |-> r.rec]
       ELSE [T |-> T1, rec |-> None]

\* reset_stats without its "if key != 'height'": every entry of stats,
\* height included, is set to zero
tree_reset_stats_height_too(T) ==
    [T EXCEPT !.stats = [page_reads |-> 0, page_writes |-> 0, splits |-> 0,
                         merges |-> 0, height |-> 0]]

\* BPlusTree.reset_stats
tree_reset_stats(T) ==
    [T EXCEPT !.stats = [page_reads |-> 0, page_writes |-> 0, splits |-> 0,
                         merges |-> 0, height |-> T.stats.height]]

\* ======================================================== extendible hash
\* ---- bucket.py.  A bucket value is [local_depth, capacity, records];
\* records is the list of <<key, record>> pairs.
Bucket(local_depth, capacity) ==
    [local_depth |-> local_depth, capacity |-> capacity, records |-> <<>>]

Bucket_is_full(b) == Len(b.records) >= b.capacity

\* 0-based position of the first pair with this key at or after i, or -1
RECURSIVE bucket_find(_, _, _)
bucket_find(records, key, i) ==
    IF i >= Len(records) THEN -1
    ELSE IF records[i + 1][1] = key THEN i
    ELSE bucket_find(records, key, i + 1)

\* Bucket.insert without "if self.is_full(): return False": a full bucket
\* takes one more entry
Bucket_insert_ignores_full(b, key, record) ==
    IF bucket_find(b.records, key, 0) # -1 THEN [ok |-> FALSE, bucket |-> b]
    ELSE [ok |-> TRUE, bucket |-> [b EXCEPT !.records = Append(@, <<key, record>>)]]

\* Bucket.insert: [ok, bucket]
Bucket_insert(b, key, record) ==
    IF bucket_find(b.records, key, 0) # -1 THEN [ok |-> FALSE, bucket |-> b]
    ELSE IF Bucket_is_full(b) THEN [ok |-> FALSE, bucket |-> b]
    ELSE [ok |-> TRUE, bucket |-> [b EXCEPT !.records = Append(@, <<key, record>>)]]

\* Bucket.search: the record or None
Bucket_search(b, key) ==
    LET i == bucket_find(b.records, key, 0)
    IN IF i = -1 THEN None ELSE b.records[i + 1][2]

\* Bucket.delete: [rec, bucket]
Bucket_delete(b, key) ==
    LET i == bucket_find(b.records, key, 0)
    IN IF i = -1
       THEN [rec |-> None, bucket |-> b]
       ELSE [rec |-> b.records[i + 1][2],
             bucket |-> [b EXCEPT !.records = ListPop(@, i)]]

\* x & (1 << bit) # 0, for any integer x
BitSet(x, bit) == (x \div Pow2(bit)) % 2 = 1

\* Bucket.split with mask = 1 << new_depth: the entries are divided by the
\* bit above the one the new depth adds
Bucket_split_mask_one_bit_up(b) ==
    LET new_depth == b.local_depth + 1
        bit == new_depth
    IN << [Bucket(new_depth, b.capacity) EXCEPT
              !.records = SelectSeq(b.records, LAMBDA e : ~BitSet(e[1], bit))],
          [Bucket(new_depth, b.capacity) EXCEPT
              !.records = SelectSeq(b.records, LAMBDA e : BitSet(e[1], bit))] >>

\* Bucket.split: <<bucket0, bucket1>>
Bucket_split(b) ==
    LET new_depth == b.local_depth + 1
        bit == new_depth - 1
    IN << [Bucket(new_depth, b.capacity) EXCEPT
              !.records = SelectSeq(b.records, LAMBDA e : ~BitSet(e[1], bit))],
          [Bucket(new_depth, b.capacity) EXCEPT
              !.records = SelectSeq(b.records, LAMBDA e : BitSet(e[1], bit))] >>

\* ---- extendible.py.  A hash value H is [global_depth, directory, buckets, stats].
\* Object identity: a new Bucket gets the smallest id no live bucket has; a
\* bucket no directory slot references any more is dropped.
FreshId(bs) == CHOOSE i \in 1..(Cardinality(DOMAIN bs) + 1) : i \notin DOMAIN bs

Collect(dir, bs) == [i \in Range(dir) |-> bs[i]]

HashNew(capacity) ==
    [global_depth |-> 1,
     directory |-> <<1, 2>>,
     buckets |-> [i \in {1, 2} |-> Bucket(1, capacity)],
     stats |-> [bucket_reads |-> 0, bucket_writes |-> 0, splits |-> 0,
                directory_doublings |-> 0]]

\* ExtendibleHash._hash: key & ((1 << global_depth) - 1)
hash_index(H, key) == key % Pow2(H.global_depth)

\* _double_directory that repeats every slot in place: [A, B] -> [A, A, B, B]
double_directory_interleaved(H) ==
    [H EXCEPT !.stats.directory_doublings = @ + 1,
              !.global_depth = @ + 1,
              !.directory = [i \in 1..(2 * Len(H.directory)) |->
                               H.directory[(i + 1) \div 2]]]

\* ExtendibleHash._double_directory
double_directory(H) ==
    [H EXCEPT !.stats.directory_doublings = @ + 1,
              !.global_depth = @ + 1,
              !.directory = H.directory \o H.directory]

\* _split_bucket testing the high bit of the slot's position counted from
\* one instead of the slot index
split_bucket_bit_of_position(H, index) ==
    LET old == H.directory[index + 1]
        halves == Bucket_split(H.buckets[old])
        id0 == FreshId(H.buckets)
        bs0 == (id0 :> halves[1]) @@ H.buckets
        id1 == FreshId(bs0)
        bs1 == (id1 :> halves[2]) @@ bs0
        new_local_depth == halves[1].local_depth
        high_bit == new_local_depth - 1
        dir == [i \in DOMAIN H.directory |->
                  IF H.directory[i] = old
                  THEN IF BitSet(i, high_bit) THEN id1 ELSE id0
                  ELSE H.directory[i]]
    IN [H EXCEPT !.stats.splits = @ + 1,
                 !.stats.bucket_writes = @ + 2,
                 !.directory = dir,
                 !.buckets = Collect(dir, bs1)]

\* ExtendibleHash._split_bucket (index is 0-based)
split_bucket(H, index) ==
    LET old == H.directory[index + 1]
        halves == Bucket_split(H.buckets[old])
        id0 == FreshId(H.buckets)
        bs0 == (id0 :> halves[1]) @@ H.buckets
        id1 == FreshId(bs0)
        bs1 == (id1 :> halves[2]) @@ bs0
        new_local_depth == halves[1].local_depth
        high_bit == new_local_depth - 1
        dir == [i \in DOMAIN H.directory |->
                  IF H.directory[i] = old
                  THEN IF BitSet(i - 1, high_bit) THEN id1 ELSE id0
                  ELSE H.directory[i]]
    IN [H EXCEPT !.stats.splits = @ + 1,
                 !.stats.bucket_writes = @ + 2,
                 !.directory = dir,
                 !.buckets = Collect(dir, bs1)]

\* _handle_overflow without the test of the local depth: the directory is
\* doubled before every split, also when the bucket's local depth is below
\* the global depth
RECURSIVE handle_overflow_always_doubles(_, _, _)
handle_overflow_always_doubles(H, key, record) ==
    LET D == double_directory(H)
        H1 == split_bucket(D, hash_index(D, key))
        H2 == [H1 EXCEPT !.stats.bucket_reads = @ + 1]
        id == H2.directory[hash_index(H2, key) + 1]
        r == Bucket_insert(H2.buckets[id], key, record)
    IN IF ~r.ok
       THEN handle_overflow_always_doubles(H2, key, record)
       ELSE [H2 EXCEPT !.buckets[id] = r.bucket, !.stats.bucket_writes = @ + 1]

\* ExtendibleHash._handle_overflow
RECURSIVE handle_overflow(_, _, _)
handle_overflow(H, key, record) ==
    LET index == hash_index(H, key)
        bucket == H.buckets[H.directory[index + 1]]
        H1 == IF bucket.local_depth < H.global_depth
              THEN split_bucket(H, index)
              ELSE LET D == double_directory(H)
                   IN split_bucket(D, hash_index(D, key))
        H2 == [H1 EXCEPT !.stats.bucket_reads = @ + 1]
        id == H2.directory[hash_index(H2, key) + 1]
        r == Bucket_insert(H2.buckets[id], key, record)
    IN IF ~r.ok
       THEN handle_overflow(H2, key, record)
       ELSE [H2 EXCEPT !.buckets[id] = r.bucket, !.stats.bucket_writes = @ + 1]

\* insert counting a bucket write before it finds the key already stored
hash_insert_counts_rejected(H, key, record) ==
    LET H1 == [H EXCEPT !.stats.bucket_reads = @ + 1, !.stats.bucket_writes = @ + 1]
        id == H1.directory[hash_index(H1, key) + 1]
        r == Bucket_insert(H1.buckets[id], key, record)
    IN IF r.ok
       THEN [H |-> [H1 EXCEPT !.buckets[id] = r.bucket], ok |-> TRUE]
       ELSE IF Bucket_search(H1.buckets[id], key) # None
       THEN [H |-> H1, ok |-> FALSE]
       ELSE [H |-> handle_overflow(H1, key, record), ok |-> TRUE]

\* insert returning False after it has handled the overflow
hash_insert_overflow_returns_false(H, key, record) ==
    LET H1 == [H EXCEPT !.stats.bucket_reads = @ + 1]
        id == H1.directory[hash_index(H1, key) + 1]
        r == Bucket_insert(H1.buckets[id], key, record)
    IN IF r.ok
       THEN [H |-> [H1 EXCEPT !.buckets[id] = r.bucket, !.stats.bucket_writes = @ + 1],
             ok |-> TRUE]
       ELSE IF Bucket_search(H1.buckets[id], key) # None
       THEN [H |-> H1, ok |-> FALSE]
       ELSE [H |-> handle_overflow(H1, key, record), ok |-> FALSE]

\* ExtendibleHash.insert: [H, ok]
hash_insert(H, key, record) ==
    LET H1 == [H EXCEPT !.stats.bucket_reads = @ + 1]
        id == H1.directory[hash_index(H1, key) + 1]
        r == Bucket_insert(H1.buckets[id], key, record)
    IN IF r.ok
       THEN [H |-> [H1 EXCEPT !.buckets[id] = r.bucket, !.stats.bucket_writes = @ + 1],
             ok |-> TRUE]
       ELSE IF Bucket_search(H1.buckets[id], key) # None
       THEN [H |-> H1, ok |-> FALSE]
       ELSE [H |-> handle_overflow(H1, key, record), ok |-> TRUE]

\* ExtendibleHash.search: [H, rec]
hash_search(H, key) ==
    LET H1 == [H EXCEPT !.stats.bucket_reads = @ + 1]
    IN [H |-> H1,
        rec |-> Bucket_search(H1.buckets[H1.directory[hash_index(H1, key) + 1]], key)]

\* _find_buddy_bucket flipping the bit below the bucket's highest address
\* bit: it finds a bucket of the same depth that is not the buddy
find_buddy_bucket_bit_below(H, id, bucket_index) ==
    LET bucket == H.buckets[id]
    IN IF bucket.local_depth <= 1 THEN 0
       ELSE LET buddy_bit == Pow2(bucket.local_depth - 2)
                buddy_index == IF BitSet(bucket_index, bucket.local_depth - 2)
                               THEN bucket_index - buddy_bit
                               ELSE bucket_index + buddy_bit
            IN IF buddy_index >= Len(H.directory) THEN 0
               ELSE LET buddy == H.directory[buddy_index + 1]
                    IN IF H.buckets[buddy].local_depth = bucket.local_depth /\ buddy # id
                       THEN buddy
                       ELSE 0

\* ExtendibleHash._find_buddy_bucket: the buddy's id, or 0 for None
\* (bucket_index is 0-based; bucket_index ^ buddy_bit flips that bit)
find_buddy_bucket(H, id, bucket_index) ==
    LET bucket == H.buckets[id]
    IN IF bucket.local_depth <= 0 THEN 0
       ELSE LET buddy_bit == Pow2(bucket.local_depth - 1)
                buddy_index == IF BitSet(bucket_index, bucket.local_depth - 1)
                               THEN bucket_index - buddy_bit
                               ELSE bucket_index + buddy_bit
            IN IF buddy_index >= Len(H.directory) THEN 0
               ELSE LET buddy == H.directory[buddy_index + 1]
                    IN IF H.buckets[buddy].local_depth = bucket.local_depth /\ buddy # id
                       THEN buddy
                       ELSE 0

\* _try_merge_buckets repointing only the slots of the bucket itself: the
\* slots of the buddy keep the buddy
try_merge_buckets_keeps_buddy_slots(H, id) ==
    LET bucket == H.buckets[id]
        at == {i \in DOMAIN H.directory : H.directory[i] = id}
    IN IF bucket.local_depth <= 1 THEN H
       ELSE IF at = {} THEN H
       ELSE LET bucket_index == (CHOOSE i \in at : \A j \in at : i <= j) - 1
                buddy == find_buddy_bucket(H, id, bucket_index)
            IN IF buddy = 0 THEN H
               ELSE IF Len(bucket.records) + Len(H.buckets[buddy].records) > bucket.capacity
               THEN H
               ELSE LET merged == FreshId(H.buckets)
                        merged_bucket ==
                            [Bucket(bucket.local_depth - 1, bucket.capacity) EXCEPT
                               !.records = bucket.records \o H.buckets[buddy].records]
                        dir == [i \in DOMAIN H.directory |->
                                  IF H.directory[i] = id
                                  THEN merged
                                  ELSE H.directory[i]]
                    IN [H EXCEPT !.stats.bucket_writes = @ + 1,
                                 !.directory = dir,
                                 !.buckets = Collect(dir, (merged :> merged_bucket) @@ H.buckets)]

\* _try_merge_buckets building the merged bucket from the bucket's own
\* records only: the buddy's records are lost
try_merge_buckets_drops_buddy(H, id) ==
    LET bucket == H.buckets[id]
        at == {i \in DOMAIN H.directory : H.directory[i] = id}
    IN IF bucket.local_depth <= 1 THEN H
       ELSE IF at = {} THEN H
       ELSE LET bucket_index == (CHOOSE i \in at : \A j \in at : i <= j) - 1
                buddy == find_buddy_bucket(H, id, bucket_index)
            IN IF buddy = 0 THEN H
               ELSE IF Len(bucket.records) + Len(H.buckets[buddy].records) > bucket.capacity
               THEN H
               ELSE LET merged == FreshId(H.buckets)
                        merged_bucket ==
                            [Bucket(bucket.local_depth - 1, bucket.capacity) EXCEPT
                               !.records = bucket.records]
                        dir == [i \in DOMAIN H.directory |->
                                  IF H.directory[i] = id \/ H.directory[i] = buddy
                                  THEN merged
                                  ELSE H.directory[i]]
                    IN [H EXCEPT !.stats.bucket_writes = @ + 1,
                                 !.directory = dir,
                                 !.buckets = Collect(dir, (merged :> merged_bucket) @@ H.buckets)]

\* _try_merge_buckets with "<= 0" for "<= 1" in its first test: buckets of
\* local depth 1 are merged too
try_merge_buckets_at_depth_one(H, id) ==
    LET bucket == H.buckets[id]
        at == {i \in DOMAIN H.directory : H.directory[i] = id}
    IN IF bucket.local_depth <= 0 THEN H
       ELSE IF at = {} THEN H
       ELSE LET bucket_index == (CHOOSE i \in at : \A j \in at : i <= j) - 1
                buddy == find_buddy_bucket(H, id, bucket_index)
            IN IF buddy = 0 THEN H
               ELSE IF Len(bucket.records) + Len(H.buckets[buddy].records) > bucket.capacity
               THEN H
               ELSE LET merged == FreshId(H.buckets)
                        merged_bucket ==
                            [Bucket(bucket.local_depth - 1, bucket.capacity) EXCEPT
                               !.records = bucket.records \o H.buckets[buddy].records]
                        dir == [i \in DOMAIN H.directory |->
                                  IF H.directory[i] = id \/ H.directory[i] = buddy
                                  THEN merged
                                  ELSE H.directory[i]]
                    IN [H EXCEPT !.stats.bucket_writes = @ + 1,
                                 !.directory = dir,
                                 !.buckets = Collect(dir, (merged :> merged_bucket) @@ H.buckets)]

\* ExtendibleHash._try_merge_buckets for the bucket with this id
try_merge_buckets(H, id) ==
    LET bucket == H.buckets[id]
        at == {i \in DOMAIN H.directory : H.directory[i] = id}
    IN IF bucket.local_depth <= 1 THEN H
       ELSE IF at = {} THEN H
       ELSE LET bucket_index == (CHOOSE i \in at : \A j \in at : i <= j) - 1
                buddy == find_buddy_bucket(H, id, bucket_index)
            IN IF buddy = 0 THEN H
               ELSE IF Len(bucket.records) + Len(H.buckets[buddy].records) > bucket.capacity
               THEN H
               ELSE LET merged == FreshId(H.buckets)
                        merged_bucket ==
                            [Bucket(bucket.local_depth - 1, bucket.capacity) EXCEPT
                               !.records = bucket.records \o H.buckets[buddy].records]
                        dir == [i \in DOMAIN H.directory |->
                                  IF H.directory[i] = id \/ H.directory[i] = buddy
                                  THEN merged
                                  ELSE H.directory[i]]
                    IN [H EXCEPT !.stats.bucket_writes = @ + 1,
                                 !.directory = dir,
                                 !.buckets = Collect(dir, (merged :> merged_bucket) @@ H.buckets)]

\* _try_shrink_directory with its test inverted (<= for >=): it returns
\* before halving whenever the directory holds a bucket
try_shrink_directory_inverted_test(H) ==
    IF H.global_depth <= 1 THEN H
    ELSE IF \E i \in DOMAIN H.directory :
               H.buckets[H.directory[i]].local_depth <= H.global_depth
    THEN H
    ELSE LET dir == Upto(H.directory, Pow2(H.global_depth - 1))
         IN [H EXCEPT !.global_depth = @ - 1,
                      !.directory = dir,
                      !.buckets = Collect(dir, H.buckets)]

\* _try_shrink_directory with > for >=: the directory is halved although a
\* bucket still has local_depth = global_depth
try_shrink_directory_off_by_one(H) ==
    IF H.global_depth <= 1 THEN H
    ELSE IF \E i \in DOMAIN H.directory :
               H.buckets[H.directory[i]].local_depth > H.global_depth
    THEN H
    ELSE LET dir == Upto(H.directory, Pow2(H.global_depth - 1))
         IN [H EXCEPT !.global_depth = @ - 1,
                      !.directory = dir,
                      !.buckets = Collect(dir, H.buckets)]

\* _try_shrink_directory halving as soon as some bucket's local depth is
\* below the global depth, not only when every bucket's is
try_shrink_directory_some_below(H) ==
    IF H.global_depth <= 1 THEN H
    ELSE IF \A i \in DOMAIN H.directory :
               H.buckets[H.directory[i]].local_depth >= H.global_depth
    THEN H
    ELSE LET dir == Upto(H.directory, Pow2(H.global_depth - 1))
         IN [H EXCEPT !.global_depth = @ - 1,
                      !.directory = dir,
                      !.buckets = Collect(dir, H.buckets)]

\* ExtendibleHash._try_shrink_directory
try_shrink_directory(H) ==
    IF H.global_depth <= 1 THEN H
    ELSE IF \E i \in DOMAIN H.directory :
               H.buckets[H.directory[i]].local_depth >= H.global_depth
    THEN H
    ELSE LET dir == Upto(H.directory, Pow2(H.global_depth - 1))
         IN [H EXCEPT !.global_depth = @ - 1,
                      !.directory = dir,
                      !.buckets = Collect(dir, H.buckets)]

\* delete counting a second bucket read for the buddy it probes after a hit
hash_delete_counts_buddy_read(H, key) ==
    LET H1 == [H EXCEPT !.stats.bucket_reads = @ + 1]
        id == H1.directory[hash_index(H1, key) + 1]
        r == Bucket_delete(H1.buckets[id], key)
    IN IF r.rec # None
       THEN LET H2 == [H1 EXCEPT !.buckets[id] = r.bucket,
                                 !.stats.bucket_writes = @ + 1,
                                 !.stats.bucket_reads = @ + 1]
            IN [H |-> try_shrink_directory(try_merge_buckets(H2, id)), rec |-> r.rec]
       ELSE [H |-> H1, rec |-> None]

\* delete running the merge and the directory shrink also when the key is absent
hash_delete_merges_on_miss(H, key) ==
    LET H1 == [H EXCEPT !.stats.bucket_reads = @ + 1]
        id == H1.directory[hash_index(H1, key) + 1]
        r == Bucket_delete(H1.buckets[id], key)
        H2 == IF r.rec # None
              THEN [H1 EXCEPT !.buckets[id] = r.bucket, !.stats.bucket_writes = @ + 1]
              ELSE H1
    IN [H |-> try_shrink_directory(try_merge_buckets(H2, id)), rec |-> r.rec]

\* delete that compacts in a loop of two rounds: after the merge and the
\* halving it tries both once more on the bucket the key now maps to
hash_delete_compacts_twice(H, key) ==
    LET H1 == [H EXCEPT !.stats.bucket_reads = @ + 1]
        id == H1.directory[hash_index(H1, key) + 1]
        r == Bucket_delete(H1.buckets[id], key)
    IN IF r.rec # None
       THEN LET H2 == [H1 EXCEPT !.buckets[id] = r.bucket,
                                 !.stats.bucket_writes = @ + 1]
                H3 == try_shrink_directory(try_merge_buckets(H2, id))
                id3 == H3.directory[hash_index(H3, key) + 1]
            IN [H |-> try_shrink_directory(try_merge_buckets(H3, id3)), rec |-> r.rec]
       ELSE [H |-> H1, rec |-> None]

\* ExtendibleHash.delete: [H, rec]
hash_delete(H, key) ==
    LET H1 == [H EXCEPT !.stats.bucket_reads = @ + 1]
        id == H1.directory[hash_index(H1, key) + 1]
        r == Bucket_delete(H1.buckets[id], key)
    IN IF r.rec # None
       THEN LET H2 == [H1 EXCEPT !.buckets[id] = r.bucket,
                                 !.stats.bucket_writes = @ + 1]
            IN [H |-> try_shrink_directory(try_merge_buckets(H2, id)), rec |-> r.rec]
       ELSE [H |-> H1, rec |-> None]

\* ExtendibleHash.reset_stats
hash_reset_stats(H) ==
    [H EXCEPT !.stats = [bucket_reads |-> 0, bucket_writes |-> 0, splits |-> 0,
                         directory_doublings |-> 0]]

\* ------------------------------------------------------------- actions
Tree == [root |-> root, nodes |-> nodes, stats |-> stats]
SetTree(T) == root' = T.root /\ nodes' = T.nodes /\ stats' = T.stats
TreeReady == engine = "tree" /\ stats.page_reads < MaxCount

TreeInsert(key, record) ==
    /\ TreeReady
    /\ LET r == tree_insert(Tree, key, record)
       IN /\ SetTree(r.T)
          /\ ret' = RetBool("insert", r.ok)
          /\ kv' = IF r.ok THEN [kv EXCEPT ![key] = record] ELSE kv
    /\ UNCHANGED <<engine, order, hashVars, everDeleted>>

TreeSearch(key) ==
    /\ TreeReady
    /\ LET r == tree_search(Tree, key)
       IN SetTree(r.T) /\ ret' = RetOpt("search", r.rec)
    /\ UNCHANGED <<engine, order, hashVars, kv, everDeleted>>

TreeRangeSearch(start_key, end_key) ==
    /\ TreeReady
    /\ LET r == tree_range_search(Tree, start_key, end_key)
       IN SetTree(r.T) /\ ret' = RetList("range_search", r.list)
    /\ UNCHANGED <<engine, order, hashVars, kv, everDeleted>>

TreeDelete(key) ==
    /\ TreeReady
    /\ LET r == tree_delete(Tree, key)
       IN /\ SetTree(r.T)
          /\ ret' = RetOpt("delete", r.rec)
          /\ kv' = IF r.rec # None THEN [kv EXCEPT ![key] = None] ELSE kv
          /\ everDeleted' = (everDeleted \/ r.rec # None)
    /\ UNCHANGED <<engine, order, hashVars>>

TreeResetStats ==
    /\ engine = "tree"
    /\ SetTree(tree_reset_stats(Tree))
    /\ ret' = RetBool("reset_stats", TRUE)
    /\ UNCHANGED <<engine, order, hashVars, kv, everDeleted>>

Hash == [global_depth |-> global_depth, directory |-> directory,
         buckets |-> buckets, stats |-> hstats]
SetHash(H) ==
    /\ global_depth' = H.global_depth
    /\ directory' = H.directory
    /\ buckets' = H.buckets
    /\ hstats' = H.stats
HashReady == engine = "hash" /\ hstats.bucket_reads < MaxCount

HashInsert(key, record) ==
    /\ HashReady
    /\ LET r == hash_insert(Hash, key, record)
       IN /\ SetHash(r.H)
          /\ ret' = RetBool("insert", r.ok)
          /\ kv' = IF r.ok THEN [kv EXCEPT ![key] = record] ELSE kv
    /\ UNCHANGED <<engine, treeVars, bucket_capacity, everDeleted>>

HashSearch(key) ==
    /\ HashReady
    /\ LET r == hash_search(Hash, key)
       IN SetHash(r.H) /\ ret' = RetOpt("search", r.rec)
    /\ UNCHANGED <<engine, treeVars, bucket_capacity, kv, everDeleted>>

HashDelete(key) ==
    /\ HashReady
    /\ LET r == hash_delete(Hash, key)
       IN /\ SetHash(r.H)
          /\ ret' = RetOpt("delete", r.rec)
          /\ kv' = IF r.rec # None THEN [kv EXCEPT ![key] = None] ELSE kv
          /\ everDeleted' = (everDeleted \/ r.rec # None)
    /\ UNCHANGED <<engine, treeVars, bucket_capacity>>

HashResetStats ==
    /\ engine = "hash"
    /\ SetHash(hash_reset_stats(Hash))
    /\ ret' = RetBool("reset_stats", TRUE)
    /\ UNCHANGED <<engine, treeVars, bucket_capacity, kv, everDeleted>>

Init ==
    /\ engine \in {"tree", "hash"}
    /\ order \in IF engine = "tree" THEN min_order..MaxOrder ELSE {min_order}
    /\ root = TreeNew.root
    /\ nodes = TreeNew.nodes
    /\ stats = TreeNew.stats
    /\ bucket_capacity \in IF engine = "hash" THEN min_capacity..MaxCapacity
                           ELSE {min_capacity}
    /\ global_depth = HashNew(bucket_capacity).global_depth
    /\ directory = HashNew(bucket_capacity).directory
    /\ buckets = HashNew(bucket_capacity).buckets
    /\ hstats = HashNew(bucket_capacity).stats
    /\ ret = RetInit
    /\ kv = [k \in AllKeys |-> None]
    /\ everDeleted = FALSE

\* the calls on a tree
NextTree ==
    \/ \E k \in Keys, r \in Recs : TreeInsert(k, r)
    \/ \E k \in Keys : TreeSearch(k)
    \/ \E lo \in Keys, hi \in Keys : TreeRangeSearch(lo, hi)
    \/ \E k \in Keys : TreeDelete(k)
    \/ TreeResetStats

\* the calls on a hash
NextHash ==
    \/ \E k \in HashKeys, r \in Recs : HashInsert(k, r)
    \/ \E k \in HashKeys : HashSearch(k)
    \/ \E k \in HashKeys : HashDelete(k)
    \/ HashResetStats

Next == NextTree \/ NextHash

\* either engine, as constructed
Spec == Init /\ [][Next]_vars

\* a B+ tree alone
InitTree == Init /\ engine = "tree"
SpecTree == InitTree /\ [][NextTree]_vars

\* an extendible hash alone
InitHash == Init /\ engine = "hash"
SpecHash == InitHash /\ [][NextHash]_vars

\* ============================================================ properties
TreeOn == engine = "tree"
HashOn == engine = "hash"

Present(k) == kv[k] # None

\* the leaves below node n, left to right
RECURSIVE LeavesBelow(_)
LeavesBelow(n) ==
    IF nodes[n].leaf THEN <<n>>
    ELSE LET RECURSIVE cat(_)
             cat(i) == IF i > Len(nodes[n].children) THEN <<>>
                       ELSE LeavesBelow(nodes[n].children[i]) \o cat(i + 1)
         IN cat(1)

\* the depths (root = 1) at which the leaves below node n lie
RECURSIVE LeafDepths(_, _)
LeafDepths(n, d) ==
    IF nodes[n].leaf THEN {d}
    ELSE UNION {LeafDepths(nodes[n].children[i], d + 1) : i \in DOMAIN nodes[n].children}

\* the nodes below node n, n included
RECURSIVE NodesBelow(_)
NodesBelow(n) ==
    IF nodes[n].leaf THEN {n}
    ELSE {n} \cup UNION {NodesBelow(nodes[n].children[i]) : i \in DOMAIN nodes[n].children}

EmptyLeaf(n) == nodes[n].leaf /\ nodes[n].keys = <<>>
\* a leaf other than the root that deletes have emptied
SomeEmptyLeaf == \E n \in NodesBelow(root) : n # root /\ EmptyLeaf(n)

\* the records of the present keys lo..hi, in ascending key order
RECURSIVE PresentRecords(_, _)
PresentRecords(lo, hi) ==
    IF lo > hi THEN <<>>
    ELSE (IF Present(lo) THEN <<kv[lo]>> ELSE <<>>) \o PresentRecords(lo + 1, hi)

\* C1: the B+ tree is a map: in every state reached by inserts and deletes,
\* search(k) returns the record of the last successful insert of k not
\* followed by a successful delete, and None for every other key.
C1_TreeSearchIsMap ==
    TreeOn => \A k \in Keys : tree_search(Tree, k).rec = kv[k]

\* a search hit in a tree of height 3 in which deletes have emptied a leaf
C1_Witness ==
    /\ TreeOn /\ stats.height >= 3 /\ SomeEmptyLeaf
    /\ ret.op = "search" /\ ret.rec # None

\* C2: the extendible hash is a map: in every state reached by inserts and
\* deletes, search(k) returns the record of the last successful insert of k
\* not followed by a successful delete, and None for every other key.
C2_HashSearchIsMap ==
    HashOn => \A k \in HashKeys : hash_search(Hash, k).rec = kv[k]

\* a delete that merged two buddies (one write for the removal, one for the
\* merge) and took the directory back to depth 1, with keys still stored
C2_Witness ==
    /\ HashOn /\ ret.op = "delete" /\ ret.ok
    /\ hstats.bucket_writes = 2 /\ global_depth = 1
    /\ \E k \in HashKeys : Present(k)

\* C3: for every lo <= hi, range_search(lo, hi) returns exactly the records
\* of the present keys of [lo, hi] in ascending key order, in every state
\* reached by inserts and deletes (emptied leaves do not end the scan).
C3_RangeSearchExact ==
    TreeOn => \A lo \in Keys, hi \in Keys :
                 lo <= hi => tree_range_search(Tree, lo, hi).list = PresentRecords(lo, hi)

\* a range_search that returned records from both sides of an emptied leaf
C3_Witness ==
    /\ TreeOn /\ ret.op = "range_search" /\ Len(ret.list) >= 2
    /\ \E n \in NodesBelow(root) :
          /\ EmptyLeaf(n) /\ nodes[n].prev # NoNode /\ nodes[n].next # NoNode
          /\ nodes[nodes[n].prev].keys # <<>> /\ nodes[nodes[n].next].keys # <<>>
          /\ ret.list = PresentRecords(Last(nodes[nodes[n].prev].keys),
                                       nodes[nodes[n].next].keys[1])

TreeStructure == <<root, nodes>>
HashStructure == <<global_depth, directory, buckets>>

\* C4: BPlusTree.insert(key, record) returns False exactly when key is
\* present; then no node, the root, page_writes, splits and height change
\* and search(key) still gives the earlier record; otherwise it returns True
\* and search(key) gives the new record.
C4_TreeDuplicateInsert ==
    [][\A k \in Keys, r \in Recs :
          (TreeOn /\ ret'.op = "insert" /\ TreeInsert(k, r)) =>
             /\ ret'.ok = ~Present(k)
             /\ Present(k) =>
                   /\ UNCHANGED TreeStructure
                   /\ stats'.page_writes = stats.page_writes
                   /\ stats'.splits = stats.splits
                   /\ stats'.height = stats.height
                   /\ tree_search(Tree', k).rec = kv[k]
             /\ ~Present(k) => tree_search(Tree', k).rec = r]_vars

\* a rejected insert into a tree that has split
C4_Witness ==
    TreeOn /\ ret.op = "insert" /\ ~ret.ok /\ stats.height >= 2

\* C5: ExtendibleHash.insert(key, record) returns False exactly when key is
\* present; then global_depth, the directory and every bucket are unchanged
\* (also when the target bucket is full) and bucket_writes and splits do not
\* change; otherwise it returns True and search(key) gives the new record.
C5_HashDuplicateInsert ==
    [][\A k \in HashKeys, r \in Recs :
          (HashOn /\ ret'.op = "insert" /\ HashInsert(k, r)) =>
             /\ ret'.ok = ~Present(k)
             /\ Present(k) =>
                   /\ UNCHANGED HashStructure
                   /\ hstats'.bucket_writes = hstats.bucket_writes
                   /\ hstats'.splits = hstats.splits
                   /\ hstats'.directory_doublings = hstats.directory_doublings
                   /\ hash_search(Hash', k).rec = kv[k]
             /\ ~Present(k) => hash_search(Hash', k).rec = r]_vars

\* a rejected insert while every bucket that holds a key is full
C5_Witness ==
    /\ HashOn /\ ret.op = "insert" /\ ~ret.ok
    /\ \A id \in DOMAIN buckets :
          buckets[id].records # <<>> => Bucket_is_full(buckets[id])

\* C6: for every directory slot i the bucket there has local_depth <=
\* global_depth, and every slot j congruent to i modulo 2^local_depth holds
\* the same bucket.
C6_DirectoryConsistent ==
    HashOn => \A i \in DOMAIN directory :
                 LET d == buckets[directory[i]].local_depth
                 IN /\ d <= global_depth
                    /\ \A j \in DOMAIN directory :
                          (j - 1) % Pow2(d) = (i - 1) % Pow2(d) => directory[j] = directory[i]

\* a directory of depth 3 or more, after deletes, in which one bucket is
\* shared by several slots and another has the full depth
C6_Witness ==
    /\ HashOn /\ global_depth >= 3 /\ everDeleted
    /\ \E id \in DOMAIN buckets : buckets[id].local_depth = 1
    /\ \E id \in DOMAIN buckets : buckets[id].local_depth = global_depth

\* C7: every leaf below the root lies at the same depth.
C7_LeavesSameDepth ==
    TreeOn => Cardinality(LeafDepths(root, 1)) = 1

\* a tree of height 3 (leaf, internal and root splits) after deletes
C7_Witness ==
    TreeOn /\ stats.height >= 3 /\ everDeleted /\ Len(LeavesBelow(root)) >= 4

\* the leaves met from leaf n on by following next (at most fuel of them)
RECURSIVE Chain(_, _)
Chain(n, fuel) ==
    IF n = NoNode \/ fuel = 0 THEN <<>> ELSE <<n>> \o Chain(nodes[n].next, fuel - 1)

\* the leftmost leaf below node n
RECURSIVE Leftmost(_)
Leftmost(n) == IF nodes[n].leaf THEN n ELSE Leftmost(nodes[n].children[1])

\* the keys of a sequence of leaves, concatenated
RECURSIVE KeysOf(_)
KeysOf(leaves) ==
    IF leaves = <<>> THEN <<>> ELSE nodes[leaves[1]].keys \o KeysOf(Tail(leaves))

StrictlyAscending(s) == \A i \in 1..(Len(s) - 1) : s[i] < s[i + 1]

\* C8: the next links from the leftmost leaf visit every leaf below the root
\* exactly once, left to right, and the keys met are exactly the present
\* keys in strictly ascending order.
C8_LeafChainOrdered ==
    TreeOn =>
       LET chain == Chain(Leftmost(root), Len(nodes) + 1)
       IN /\ chain = LeavesBelow(root)
          /\ StrictlyAscending(KeysOf(chain))
          /\ Range(KeysOf(chain)) = {k \in Keys : Present(k)}

\* a chain of four or more leaves, one of them emptied, in a tree of height 3
C8_Witness ==
    /\ TreeOn /\ stats.height >= 3 /\ SomeEmptyLeaf
    /\ Len(Chain(Leftmost(root), Len(nodes) + 1)) >= 4
    /\ Cardinality({k \in Keys : Present(k)}) >= 3

NonRoot == NodesBelow(root) \ {root}

\* C9 as stated: in every state reached by inserts and deletes every
\* non-root node has min_keys <= len(keys) <= order - 1.
C9_OccupancyAsStated ==
    TreeOn => \A n \in NonRoot :
                 min_keys <= Len(nodes[n].keys) /\ Len(nodes[n].keys) <= order - 1

\* C9 amended: every node has len(keys) <= order - 1 and every non-root
\* internal node has at least min_keys keys; every non-root leaf has at
\* least min_keys keys as long as no delete has removed a record (delete
\* does not rebalance, so afterwards a leaf may hold fewer, even none).
C9_Occupancy ==
    TreeOn =>
       /\ \A n \in NodesBelow(root) : Len(nodes[n].keys) <= order - 1
       /\ \A n \in NonRoot : ~nodes[n].leaf => min_keys <= Len(nodes[n].keys)
       /\ ~everDeleted => \A n \in NonRoot : min_keys <= Len(nodes[n].keys)

\* non-root internal nodes and leaves at their minimum, before any delete
C9_Witness ==
    /\ TreeOn /\ stats.height >= 3 /\ ~everDeleted
    /\ \E n \in NonRoot : ~nodes[n].leaf /\ Len(nodes[n].keys) = min_keys
    /\ \E n \in NonRoot : nodes[n].leaf /\ Len(nodes[n].keys) = order - 1

\* C10: delete(k) of an absent key returns None on both engines, leaves the
\* structure and the write counter unchanged, and a second delete(k) does
\* the same again.
C10_DeleteAbsentNoOp ==
    [][/\ \A k \in Keys :
             (TreeOn /\ ~Present(k) /\ ret'.op = "delete" /\ TreeDelete(k)) =>
                /\ ret'.rec = None
                /\ UNCHANGED TreeStructure
                /\ stats'.page_writes = stats.page_writes
                /\ stats'.splits = stats.splits /\ stats'.merges = stats.merges
                /\ LET again == tree_delete(Tree', k)
                   IN /\ again.rec = None
                      /\ again.T.root = root' /\ again.T.nodes = nodes'
                      /\ again.T.stats.page_writes = stats'.page_writes
       /\ \A k \in HashKeys :
             (HashOn /\ ~Present(k) /\ ret'.op = "delete" /\ HashDelete(k)) =>
                /\ ret'.rec = None
                /\ UNCHANGED HashStructure
                /\ hstats'.bucket_writes = hstats.bucket_writes
                /\ LET again == hash_delete(Hash', k)
                   IN /\ again.rec = None
                      /\ again.H.global_depth = global_depth'
                      /\ again.H.directory = directory'
                      /\ again.H.buckets = buckets'
                      /\ again.H.stats.bucket_writes = hstats'.bucket_writes]_vars

\* two buddies that would fit into one bucket
Mergeable(a, b) ==
    /\ a # b
    /\ buckets[a].local_depth = buckets[b].local_depth
    /\ buckets[a].local_depth > 1
    /\ Len(buckets[a].records) + Len(buckets[b].records) <= buckets[a].capacity
    /\ \E i \in DOMAIN directory :
          directory[i] = a /\ find_buddy_bucket(Hash, a, i - 1) = b

\* a delete that missed in a hash that still holds two mergeable buddies
C10_Witness ==
    /\ HashOn /\ ret.op = "delete" /\ ret.rec = None /\ global_depth >= 2
    /\ \E a \in DOMAIN buckets, b \in DOMAIN buckets : Mergeable(a, b)

\* C11: every ExtendibleHash.search call and every ExtendibleHash.delete
\* call, hit or miss, with or without a merge or a directory halving after
\* it, adds exactly 1 to bucket_reads.
C11_OneBucketReadPerProbe ==
    [][\A k \in HashKeys :
          (HashOn /\ ret'.op \in {"search", "delete"}
                  /\ (HashSearch(k) \/ HashDelete(k))) =>
             hstats'.bucket_reads = hstats.bucket_reads + 1]_vars

\* a delete that removed a record and merged two buddies (two bucket
\* writes) while reading one bucket
C11_Witness ==
    /\ HashOn /\ ret.op = "delete" /\ ret.ok
    /\ hstats.bucket_writes = 2 /\ hstats.bucket_reads = 1

\* ------------------------------------------- the test_shrink_directory run
\* test_hash.py, test_shrink_directory: a hash of capacity ShrinkCapacity,
\* insert(i) for i in range(ShrinkInserted), then delete(i) for i in
\* range(ShrinkDeleted), then search(i) for the keys left.
ShrinkCapacity == 2
ShrinkInserted == 20
ShrinkDeleted == 18
ShrinkKeys == 0..(ShrinkInserted - 1)
ShrinkKept == {k \in ShrinkKeys : k >= ShrinkDeleted}

ShrinkInit ==
    /\ engine = "hash"
    /\ order = min_order
    /\ root = TreeNew.root
    /\ nodes = TreeNew.nodes
    /\ stats = TreeNew.stats
    /\ bucket_capacity = ShrinkCapacity
    /\ global_depth = HashNew(ShrinkCapacity).global_depth
    /\ directory = HashNew(ShrinkCapacity).directory
    /\ buckets = HashNew(ShrinkCapacity).buckets
    /\ hstats = HashNew(ShrinkCapacity).stats
    /\ ret = RetInit
    /\ kv = [k \in ShrinkKeys |-> None]
    /\ everDeleted = FALSE

Least(S) == CHOOSE k \in S : \A j \in S : k <= j

\* the first loop: the keys not yet inserted, in ascending order
ShrinkToInsert == IF everDeleted THEN {} ELSE {k \in ShrinkKeys : ~Present(k)}
\* the second loop, entered once every key is stored: the keys below
\* ShrinkDeleted not yet deleted, in ascending order
ShrinkToDelete ==
    IF ShrinkToInsert # {} THEN {}
    ELSE {k \in ShrinkKeys : k < ShrinkDeleted /\ Present(k)}

ShrinkInsert ==
    ShrinkToInsert # {} /\ \E r \in {"r1"} : HashInsert(Least(ShrinkToInsert), r)
ShrinkDelete ==
    ShrinkToDelete # {} /\ HashDelete(Least(ShrinkToDelete))
ShrinkSearch == \E k \in ShrinkKept : HashSearch(k)

ShrinkNext ==
    \/ ShrinkInsert
    \/ ShrinkDelete
    \/ ShrinkSearch
    \/ HashResetStats

SpecShrink == ShrinkInit /\ [][ShrinkNext]_vars

\* the first loop as one value: insert(lo), ..., insert(hi) applied to H
\* (each insert is evaluated before the next one is begun)
RECURSIVE insert_range(_, _, _)
insert_range(H, lo, hi) ==
    IF lo > hi THEN H
    ELSE LET H1 == hash_insert(H, lo, "r1").H
         IN IF H1.global_depth >= 1 THEN insert_range(H1, lo + 1, hi) ELSE H1

\* max_depth of the test: global_depth after the first loop
ShrinkPeakDepth ==
    insert_range(HashNew(bucket_capacity), 0, ShrinkInserted - 1).global_depth

\* the first loop has ended and the second has not begun
ShrinkLoaded == ~everDeleted /\ \A k \in ShrinkKeys : Present(k)
\* the second loop has ended
ShrinkDone == everDeleted /\ \A k \in ShrinkKeys : Present(k) <=> k \in ShrinkKept

\* C12: with bucket_capacity 2, after insert of 0..19 in ascending order
\* and delete of 0..17 in ascending order, global_depth is strictly below
\* the value it had after the inserts (its peak), and search(18) and
\* search(19) still return their records.
C12_ShrinkAfterDeletes ==
    /\ ~everDeleted => global_depth <= ShrinkPeakDepth
    /\ ShrinkLoaded => global_depth = ShrinkPeakDepth
    /\ ShrinkDone =>
          /\ global_depth < ShrinkPeakDepth
          /\ \A k \in ShrinkKept : hash_search(Hash, k).rec = "r1"

\* both loops have run and a search of a kept key has returned its record
C12_Witness ==
    ShrinkDone /\ ret.op = "search" /\ ret.rec = "r1" /\ global_depth = 1

\* the number of distinct bucket instances a directory references
\* (ExtendibleHash._count_unique_buckets)
count_unique_buckets(dir) == Cardinality(Range(dir))

\* C13: a hash delete never grows the structure: after delete(key) the
\* number of distinct buckets in the directory and global_depth are each at
\* most what they were before the call, and every other present key is
\* still found by search (with its record).
C13_DeleteNeverGrows ==
    [][\A k \in HashKeys :
          (HashOn /\ ret'.op = "delete" /\ HashDelete(k)) =>
             /\ count_unique_buckets(directory') <= count_unique_buckets(directory)
             /\ global_depth' <= global_depth
             /\ \A j \in HashKeys \ {k} :
                   Present(j) => /\ hash_search(Hash', j).rec # None
                                 /\ hash_search(Hash', j).rec = kv[j]]_vars

\* a delete that merged two buddies in a directory that stays at depth 2 or
\* more, with two or more keys left
C13_Witness ==
    /\ HashOn /\ ret.op = "delete" /\ ret.ok
    /\ hstats.bucket_writes = 2 /\ global_depth >= 2
    /\ Cardinality({k \in HashKeys : Present(k)}) >= 2

\* C14: range_search(lo, hi) with lo > hi returns the empty list without
\* descending the tree: root and nodes are unchanged and no counter
\* (page_reads included) changes.
C14_EmptyRangeTouchesNothing ==
    [][\A lo \in Keys, hi \in Keys :
          (TreeOn /\ lo > hi /\ ret'.op = "range_search" /\ TreeRangeSearch(lo, hi)) =>
             /\ ret'.list = <<>>
             /\ UNCHANGED <<root, nodes, stats>>]_vars

\* a range_search that returned nothing and read no page, on a tree that has
\* split and holds keys (a scan of an empty range would have read the leaf)
C14_Witness ==
    /\ TreeOn /\ ret.op = "range_search" /\ ret.list = <<>>
    /\ stats.page_reads = 0 /\ stats.height >= 2
    /\ \A k \in Keys : Present(k)

\* C15: reset_stats sets the operation counters to zero and changes nothing
\* else: on the tree page_reads, page_writes, splits and merges become 0
\* while height, root and the nodes are unchanged; on the hash bucket_reads,
\* bucket_writes, splits and directory_doublings become 0 while
\* global_depth, the directory and the buckets are unchanged.
C15_ResetStatsFrame ==
    [][/\ (TreeOn /\ ret'.op = "reset_stats" /\ TreeResetStats) =>
             /\ stats'.page_reads = 0 /\ stats'.page_writes = 0
             /\ stats'.splits = 0 /\ stats'.merges = 0
             /\ stats'.height = stats.height
             /\ DOMAIN stats' = DOMAIN stats
             /\ UNCHANGED <<TreeStructure, order, kv>>
       /\ (HashOn /\ ret'.op = "reset_stats" /\ HashResetStats) =>
             /\ hstats'.bucket_reads = 0 /\ hstats'.bucket_writes = 0
             /\ hstats'.splits = 0 /\ hstats'.directory_doublings = 0
             /\ DOMAIN hstats' = DOMAIN hstats
             /\ UNCHANGED <<HashStructure, bucket_capacity, kv>>]_vars

\* a reset on a hash whose directory has doubled twice and still holds keys
C15_Witness ==
    /\ HashOn /\ ret.op = "reset_stats" /\ global_depth >= 3
    /\ hstats.bucket_reads = 0 /\ hstats.bucket_writes = 0
    /\ hstats.splits = 0 /\ hstats.directory_doublings = 0
    /\ \E k \in HashKeys : Present(k)

\* ======================================================== the constructors
\* Config, BPlusTree and ExtendibleHash called with every combination of
\* arguments: the page size, the number of fields and the optional explicit
\* order or capacity (<<>> is Python's None, <<n>> an explicit n).
MaxPage == 260
MaxFields == 64
min_page_size == 256
field_size == 4

PageSizes == 0..MaxPage
NumFields == (-1)..MaxFields
OrderArgs == {<<>>} \cup {<<n>> : n \in (-1)..MaxOrder}
CapacityArgs == {<<>>} \cup {<<n>> : n \in (-1)..(MaxCapacity + 1)}

Max(a, b) == IF a >= b THEN a ELSE b

\* the dataclass fields of Config
Config(page_size, num_fields) ==
    [page_size |-> page_size, num_fields |-> num_fields,
     field_size |-> field_size, min_order |-> min_order]

\* __post_init__ testing num_fields < 0: a record of zero fields is accepted
Config_post_init_accepts_zero_fields(c) ==
    IF c.page_size < min_page_size THEN "ValueError"
    ELSE IF c.num_fields < 0 THEN "ValueError"
    ELSE None

\* Config.__post_init__: the exception it raises, None when it returns
Config_post_init(c) ==
    IF c.page_size < min_page_size THEN "ValueError"
    ELSE IF c.num_fields < 1 THEN "ValueError"
    ELSE None

\* Config.record_size and Config.key_size
record_size(c) == c.num_fields * c.field_size
key_size(c) == c.field_size

\* calculate_bplus_order that sizes an entry as the record alone
calculate_bplus_order_without_key(c) ==
    Max(c.min_order, c.page_size \div record_size(c))

\* Config.calculate_bplus_order
calculate_bplus_order(c) ==
    LET entry_size == key_size(c) + record_size(c)
    IN Max(c.min_order, c.page_size \div entry_size)

\* Config.calculate_hash_bucket_capacity
calculate_hash_bucket_capacity(c) ==
    LET entry_size == key_size(c) + record_size(c)
    IN Max(min_capacity, c.page_size \div entry_size)

\* Node.__init__ with <= for <: an order of exactly 3 is rejected too
Node_init_rejects_three(ord) == IF ord <= min_order THEN "ValueError" ELSE None

\* Node.__init__: raises when order < 3
Node_init(ord) == IF ord < min_order THEN "ValueError" ELSE None

\* BPlusTree.__init__ up to the root leaf: the exception raised (None when
\* the tree is built) and the order it took
BPlusTree_init(order_arg, page_size, num_fields) ==
    LET c == Config(page_size, num_fields)
    IN IF Config_post_init(c) # None
       THEN [error |-> Config_post_init(c), order |-> min_order]
       ELSE LET o == IF order_arg = <<>> THEN calculate_bplus_order(c)
                     ELSE Max(min_order, order_arg[1])
            IN [error |-> Node_init(o), order |-> o]

\* ExtendibleHash.__init__ up to the two buckets: the exception raised and
\* the bucket capacity it took
ExtendibleHash_init(capacity_arg, page_size, num_fields) ==
    LET c == Config(page_size, num_fields)
    IN IF Config_post_init(c) # None
       THEN [error |-> Config_post_init(c), capacity |-> min_capacity]
       ELSE [error |-> None,
             capacity |-> IF capacity_arg = <<>>
                          THEN calculate_hash_bucket_capacity(c)
                          ELSE Max(min_capacity, capacity_arg[1])]

\* what a constructor call left: its arguments, whether it returned and
\* the exception it raised
RetNew(o, arg, page_size, num_fields, error) ==
    [op |-> o, ok |-> (error = None), rec |-> None, list |-> <<>>,
     arg |-> arg, page_size |-> page_size, num_fields |-> num_fields,
     error |-> error]

\* no engine exists yet: the engine fields hold the values of an empty one
InitNew ==
    /\ engine = "none"
    /\ order = min_order
    /\ root = TreeNew.root
    /\ nodes = TreeNew.nodes
    /\ stats = TreeNew.stats
    /\ bucket_capacity = min_capacity
    /\ global_depth = HashNew(min_capacity).global_depth
    /\ directory = HashNew(min_capacity).directory
    /\ buckets = HashNew(min_capacity).buckets
    /\ hstats = HashNew(min_capacity).stats
    /\ ret = RetInit
    /\ kv = [k \in AllKeys |-> None]
    /\ everDeleted = FALSE

\* a constructor keeps nothing of an earlier call that raised, so each
\* behaviour makes one call
NoCallYet == engine = "none" /\ ret = RetInit

\* Config(page_size=..., num_fields=...)
ConfigNew(page_size, num_fields) ==
    /\ NoCallYet
    /\ ret' = RetNew("Config", <<>>, page_size, num_fields,
                     Config_post_init(Config(page_size, num_fields)))
    /\ UNCHANGED <<engine, treeVars, hashVars, kv, everDeleted>>

\* BPlusTree(order=..., page_size=..., num_fields=...)
BPlusTreeNew(order_arg, page_size, num_fields) ==
    /\ NoCallYet
    /\ LET r == BPlusTree_init(order_arg, page_size, num_fields)
       IN /\ ret' = RetNew("BPlusTree", order_arg, page_size, num_fields, r.error)
          /\ engine' = IF r.error = None THEN "tree" ELSE engine
          /\ order' = IF r.error = None THEN r.order ELSE order
    /\ SetTree(TreeNew)
    /\ UNCHANGED <<hashVars, kv, everDeleted>>

\* ExtendibleHash(bucket_capacity=..., page_size=..., num_fields=...)
ExtendibleHashNew(capacity_arg, page_size, num_fields) ==
    /\ NoCallYet
    /\ LET r == ExtendibleHash_init(capacity_arg, page_size, num_fields)
       IN /\ ret' = RetNew("ExtendibleHash", capacity_arg, page_size,
                           num_fields, r.error)
          /\ engine' = IF r.error = None THEN "hash" ELSE engine
          /\ bucket_capacity' = IF r.error = None THEN r.capacity
                                ELSE bucket_capacity
          /\ SetHash(IF r.error = None THEN HashNew(r.capacity) ELSE Hash)
    /\ UNCHANGED <<treeVars, kv, everDeleted>>

NextNew ==
    \/ NoCallYet /\ \E p \in PageSizes, f \in NumFields : ConfigNew(p, f)
    \/ NoCallYet /\ \E o \in OrderArgs, p \in PageSizes, f \in NumFields :
                       BPlusTreeNew(o, p, f)
    \/ NoCallYet /\ \E c \in CapacityArgs, p \in PageSizes, f \in NumFields :
                       ExtendibleHashNew(c, p, f)

SpecNew == InitNew /\ [][NextNew]_vars

\* the page size and field count of the last constructor call are in the
\* range the sizing rule is stated for
SizedCall(o) ==
    /\ ret.op = o
    /\ ret.page_size >= 256
    /\ ret.num_fields >= 1

\* floor(page_bytes / (4 + 4 * num_fields)) of the last constructor call
EntriesPerPage == ret.page_size \div (4 + 4 * ret.num_fields)

\* C16: for every page_bytes >= 256 and num_fields >= 1 the computed tree
\* order is max(3, floor(page_bytes / (4 + 4*num_fields))) and the computed
\* bucket capacity is max(2, floor(page_bytes / (4 + 4*num_fields))); an
\* explicit order below 3 becomes 3 and an explicit capacity below 2 (zero
\* and negative included) becomes 2, and the call is not rejected.
C16_Sizing ==
    /\ SizedCall("BPlusTree") =>
          /\ ret.ok /\ TreeOn
          /\ ret.arg = <<>> =>
                order = IF EntriesPerPage < 3 THEN 3 ELSE EntriesPerPage
          /\ (ret.arg # <<>> /\ ret.arg[1] < 3) => order = 3
          /\ (ret.arg # <<>> /\ ret.arg[1] >= 3) => order = ret.arg[1]
    /\ SizedCall("ExtendibleHash") =>
          /\ ret.ok /\ HashOn
          /\ ret.arg = <<>> =>
                bucket_capacity = IF EntriesPerPage < 2 THEN 2 ELSE EntriesPerPage
          /\ (ret.arg # <<>> /\ ret.arg[1] < 2) => bucket_capacity = 2
          /\ (ret.arg # <<>> /\ ret.arg[1] >= 2) => bucket_capacity = ret.arg[1]
          /\ \A b \in Range(directory) : buckets[b].capacity = bucket_capacity

\* a tree sized from a page that holds more than three entries
C16_Witness ==
    /\ SizedCall("BPlusTree") /\ ret.arg = <<>>
    /\ ret.page_size = 256 /\ ret.num_fields = 1
    /\ order = 32

\* ============================================== the statements that raise
\* Each operator below follows one call through the statements that can
\* raise (Node.__init__, an index into keys, records, children or the
\* directory, a shift by a negative count) and gives the exception the call
\* ends in, None when it returns.

\* InternalNode.find_child: self.children[i] and self.children[-1]
find_child_error(node, key) ==
    IF find_child_index(node, key) \in 1..Len(node.children)
    THEN None ELSE "IndexError"

\* BPlusTree._find_leaf
RECURSIVE find_leaf_error(_, _, _)
find_leaf_error(ns, n, key) ==
    IF ns[n].leaf THEN None
    ELSE IF find_child_error(ns[n], key) # None THEN find_child_error(ns[n], key)
    ELSE find_leaf_error(ns, ns[n].children[find_child_index(ns[n], key)], key)

\* LeafNode.split: LeafNode(self.order), then new_node.keys[0] of keys[mid:]
LeafNode_split_error(node) ==
    IF Node_init(order) # None THEN Node_init(order)
    ELSE IF From(node.keys, Len(node.keys) \div 2) = <<>> THEN "IndexError"
    ELSE None

\* InternalNode.split: self.keys[mid], then InternalNode(self.order)
InternalNode_split_error(node) ==
    IF Len(node.keys) \div 2 >= Len(node.keys) THEN "IndexError"
    ELSE Node_init(order)

\* BPlusTree._handle_split with _create_new_root
RECURSIVE handle_split_error(_, _)
handle_split_error(T, n) ==
    LET e == IF T.nodes[n].leaf THEN LeafNode_split_error(T.nodes[n])
             ELSE InternalNode_split_error(T.nodes[n])
    IN IF e # None THEN e
       ELSE LET S == IF T.nodes[n].leaf
                     THEN LeafNode_split(T.nodes, n)
                     ELSE InternalNode_split(T.nodes, n)
                p == S.nodes[n].parent
            IN IF p = NoNode
               THEN Node_init(order)
               ELSE LET T2 == [T EXCEPT !.nodes = insert_child(S.nodes, p, S.promoted, S.new)]
                    IN IF is_full(T2.nodes[p]) THEN handle_split_error(T2, p) ELSE None

\* BPlusTree.insert
tree_insert_error(T, key, record) ==
    IF find_leaf_error(T.nodes, T.root, key) # None
    THEN find_leaf_error(T.nodes, T.root, key)
    ELSE LET leaf == Last(find_leaf(T.nodes, T.root, key))
             r == LeafNode_insert(T.nodes[leaf], key, record)
         IN IF ~r.ok THEN None
            ELSE IF is_full(r.node)
            THEN handle_split_error([T EXCEPT !.nodes[leaf] = r.node], leaf)
            ELSE None

\* LeafNode.search and LeafNode.delete: self.records[pos], self.records.pop(pos)
LeafNode_record_error(node, key) ==
    LET pos == binary_search(node.keys, key)
    IN IF pos < Len(node.keys) /\ node.keys[pos + 1] = key /\ pos >= Len(node.records)
       THEN "IndexError" ELSE None

\* BPlusTree.search and BPlusTree.delete
tree_lookup_error(T, key) ==
    IF find_leaf_error(T.nodes, T.root, key) # None
    THEN find_leaf_error(T.nodes, T.root, key)
    ELSE LeafNode_record_error(T.nodes[Last(find_leaf(T.nodes, T.root, key))], key)

\* leaf.records[i] in the loops of BPlusTree.range_search
RECURSIVE range_scan_error(_, _, _, _)
range_scan_error(ns, n, start_key, end_key) ==
    IF n = NoNode THEN None
    ELSE IF \E i \in 1..Len(ns[n].keys) :
               /\ \A j \in 1..i : ns[n].keys[j] <= end_key
               /\ start_key <= ns[n].keys[i]
               /\ i > Len(ns[n].records)
    THEN "IndexError"
    ELSE IF scan_leaf(ns[n], 1, start_key, end_key).done THEN None
    ELSE range_scan_error(ns, ns[n].next, start_key, end_key)

\* BPlusTree.range_search
tree_range_search_error(T, start_key, end_key) ==
    IF start_key > end_key THEN None
    ELSE IF find_leaf_error(T.nodes, T.root, start_key) # None
    THEN find_leaf_error(T.nodes, T.root, start_key)
    ELSE range_scan_error(T.nodes, Last(find_leaf(T.nodes, T.root, start_key)),
                          start_key, end_key)

\* ExtendibleHash._hash and self.directory[index]: 1 << global_depth, then
\* the index into the directory
get_bucket_error(H, key) ==
    IF H.global_depth < 0 THEN "ValueError"
    ELSE IF hash_index(H, key) + 1 \in DOMAIN H.directory THEN None
    ELSE "IndexError"

\* ExtendibleHash._handle_overflow with _split_bucket
RECURSIVE handle_overflow_error(_, _, _)
handle_overflow_error(H, key, record) ==
    IF get_bucket_error(H, key) # None THEN get_bucket_error(H, key)
    ELSE LET index == hash_index(H, key)
             bucket == H.buckets[H.directory[index + 1]]
             D == double_directory(H)
         IN IF bucket.local_depth >= H.global_depth /\ get_bucket_error(D, key) # None
            THEN get_bucket_error(D, key)
            ELSE LET H1 == IF bucket.local_depth < H.global_depth
                           THEN split_bucket(H, index)
                           ELSE split_bucket(D, hash_index(D, key))
                 IN IF get_bucket_error(H1, key) # None THEN get_bucket_error(H1, key)
                    ELSE LET id == H1.directory[hash_index(H1, key) + 1]
                         IN IF Bucket_insert(H1.buckets[id], key, record).ok
                            THEN None
                            ELSE handle_overflow_error(H1, key, record)

\* ExtendibleHash.insert
hash_insert_error(H, key, record) ==
    IF get_bucket_error(H, key) # None THEN get_bucket_error(H, key)
    ELSE LET id == H.directory[hash_index(H, key) + 1]
         IN IF Bucket_insert(H.buckets[id], key, record).ok THEN None
            ELSE IF Bucket_search(H.buckets[id], key) # None THEN None
            ELSE handle_overflow_error(H, key, record)

\* ExtendibleHash.search and ExtendibleHash.delete: after the probe, neither
\* Bucket.search, Bucket.delete, _try_merge_buckets (its buddy index is
\* tested against len(directory)) nor _try_shrink_directory indexes anything
hash_lookup_error(H, key) == get_bucket_error(H, key)

\* C17: once an engine is constructed, no insert, search, delete or
\* range_search call ends in an exception, for any key in any reachable
\* state; in particular no split builds a node with order < 3 or reads the
\* first key of an empty node.  Duplicate inserts, misses and inverted
\* ranges come back as False, None and the empty list.
C17_NoCallRaises ==
    /\ TreeOn =>
          /\ Node_init(order) = None
          /\ \A k \in Keys :
                /\ \A r \in Recs : tree_insert_error(Tree, k, r) = None
                /\ tree_lookup_error(Tree, k) = None
                /\ \A hi \in Keys : tree_range_search_error(Tree, k, hi) = None
          /\ (ret.op = "insert" /\ ~ret.ok) => \E k \in Keys : Present(k)
          /\ (ret.op \in {"search", "delete"} /\ ~ret.ok) => ret.rec = None
    /\ HashOn =>
          \A k \in HashKeys :
             /\ \A r \in Recs : hash_insert_error(Hash, k, r) = None
             /\ hash_lookup_error(Hash, k) = None

\* a duplicate insert answered False on a tree of two levels, whose next
\* insert of an absent key splits a leaf
C17_Witness ==
    /\ TreeOn /\ ret.op = "insert" /\ ~ret.ok /\ stats.height >= 2
    /\ \E k \in Keys : ~Present(k) /\ is_full(LeafNode_insert(
           nodes[Last(find_leaf(nodes, root, k))], k, "r1").node)

ConstructorCall == ret.op \in {"Config", "BPlusTree", "ExtendibleHash"}

\* the floor applied to the explicit argument or to the computed quotient
Clamped(floor) ==
    Max(floor, IF ret.arg = <<>> THEN EntriesPerPage ELSE ret.arg[1])

\* C18 as stated: Config and the two constructors fail only when num_fields
\* is non-positive; for every num_fields >= 1 and every page budget they
\* succeed and yield the clamped order or capacity.
C18_FailsOnlyOnFields ==
    ConstructorCall =>
       /\ ret.ok <=> ret.num_fields >= 1
       /\ (ret.ok /\ ret.op = "BPlusTree") => order = Clamped(3)
       /\ (ret.ok /\ ret.op = "ExtendibleHash") => bucket_capacity = Clamped(2)

\* C18, amended: Config and the two constructors fail exactly when
\* num_fields is below 1 or the page size is below 256, with a ValueError
\* and no engine built; for every num_fields >= 1 and every page size
\* >= 256 (pages smaller than one entry included) they succeed and yield
\* the clamped order or capacity.
C18_FailsOnFieldsOrPage ==
    ConstructorCall =>
       /\ ret.ok <=> (ret.num_fields >= 1 /\ ret.page_size >= 256)
       /\ ~ret.ok => (ret.error = "ValueError" /\ engine = "none")
       /\ (ret.ok /\ ret.op = "BPlusTree") => (TreeOn /\ order = Clamped(3))
       /\ (ret.ok /\ ret.op = "ExtendibleHash") =>
             (HashOn /\ bucket_capacity = Clamped(2))

\* a hash built for a page smaller than one entry: the capacity is the floor
C18_Witness ==
    /\ ret.op = "ExtendibleHash" /\ ret.ok /\ ret.arg = <<>>
    /\ ret.page_size < 4 + 4 * ret.num_fields
    /\ bucket_capacity = 2

\* the directory slots (1-based) that hold bucket b
SlotsOf(b) == {i \in DOMAIN directory : directory[i] = b}

\* C19: after every completed hash operation the directory has exactly
\* 2^global_depth slots with global_depth >= 1, and every bucket of local
\* depth d in the directory is referenced by exactly 2^(global_depth - d)
\* slots.
C19_DirectoryShape ==
    HashOn =>
       /\ global_depth >= 1
       /\ Len(directory) = Pow2(global_depth)
       /\ \A b \in Range(directory) :
             /\ buckets[b].local_depth <= global_depth
             /\ Cardinality(SlotsOf(b)) = Pow2(global_depth - buckets[b].local_depth)

\* after a delete: a directory of eight slots in which one bucket of local
\* depth 1 holds four slots next to buckets of local depth 3
C19_Witness ==
    /\ HashOn /\ ret.op = "delete" /\ ret.ok
    /\ global_depth = 3
    /\ \E b \in Range(directory) : Cardinality(SlotsOf(b)) = 4
    /\ \E b \in Range(directory) : buckets[b].local_depth = 3

\* ================================================== run_experiments.py
\* A data file is its rows after the header OP,A1,...,An: each row an OP
\* cell and the A cells, a cell of digits written as the sequence of its
\* digits.
MaxRows == 3

OpCells == {"+", "?", "-", "X"}
DigitCells == {<<1>>, <<2, 0>>}
FileRows == [OP : OpCells, A : {<<c>> : c \in DigitCells}]
RECURSIVE FilesOf(_)
FilesOf(n) ==
    IF n = 0 THEN {<<>>}
    ELSE FilesOf(n - 1) \cup {Append(f, r) : f \in {g \in FilesOf(n - 1) : Len(g) = n - 1},
                                             r \in FileRows}
Files == FilesOf(MaxRows)

\* int() of a cell of decimal digits
RECURSIVE int(_)
int(cell) ==
    IF cell = <<>> THEN 0
    ELSE 10 * int(SubSeq(cell, 1, Len(cell) - 1)) + cell[Len(cell)]

\* the "for row in reader" loop of load_siogen_data: every row is appended
\* as (op, fields), fields being int(row['A1']), int(row['A2']), ...
RECURSIVE load_rows(_)
load_rows(rows) ==
    IF rows = <<>> THEN <<>>
    ELSE <<[op |-> Head(rows).OP,
            fields |-> [i \in 1..Len(Head(rows).A) |-> int(Head(rows).A[i])]]>>
         \o load_rows(Tail(rows))

\* load_siogen_data: the empty list when the file does not exist
load_siogen_data(exists, rows) ==
    IF ~exists THEN <<>> ELSE load_rows(rows)

\* load_siogen_data(filename) on a file that exists or not
LoadSiogenData(exists, rows) ==
    /\ NoCallYet
    /\ ret' = [op |-> "load_siogen_data", ok |-> TRUE, rec |-> None,
               list |-> load_siogen_data(exists, rows),
               exists |-> exists, rows |-> rows]
    /\ UNCHANGED <<engine, treeVars, hashVars, kv, everDeleted>>

NextLoad ==
    \/ NoCallYet /\ \E f \in Files : LoadSiogenData(TRUE, f)
    \/ LoadSiogenData(FALSE, <<>>)

SpecLoad == InitNew /\ [][NextLoad]_vars

\* the operations the experiments run: insert, search, delete
ValidOps == {"+", "?", "-"}

\* the rows of a file whose OP is a valid operation, in file order
RECURSIVE ValidRows(_)
ValidRows(rows) ==
    IF rows = <<>> THEN <<>>
    ELSE (IF Head(rows).OP \in ValidOps THEN <<Head(rows)>> ELSE <<>>)
         \o ValidRows(Tail(rows))

\* C20: load_siogen_data ignores rows whose OP value is not one of '+', '?'
\* or '-': the returned list holds exactly the rows with a valid operation,
\* in file order.
C20_InvalidRowsIgnored ==
    (ret.op = "load_siogen_data" /\ ret.exists) =>
       /\ Len(ret.list) = Len(ValidRows(ret.rows))
       /\ \A i \in 1..Len(ValidRows(ret.rows)) :
             /\ ret.list[i].op = ValidRows(ret.rows)[i].OP
             /\ ret.list[i].fields =
                   [j \in 1..Len(ValidRows(ret.rows)[i].A) |->
                      int(ValidRows(ret.rows)[i].A[j])]

\* ---- generate_simple_data
\* The configuration of test_intercalates_operations; the generator is run
\* for every configuration up to it.
TestInsertions == 50
TestSearches == 30
TestDeletions == 10

\* n copies of x
RECURSIVE Repeat(_, _)
Repeat(x, n) == IF n <= 0 THEN <<>> ELSE <<x>> \o Repeat(x, n - 1)

Min(a, b) == IF a <= b THEN a ELSE b

\* generate_simple_data: the OP column of the file it writes.  The three
\* loops append the insertions, then the searches, then the deletions
\* (min(num_deletions, len(keys)) of them); the random module only picks
\* the values of the A cells, never the place of a row.
generate_simple_data(num_insertions, num_searches, num_deletions) ==
    Repeat("+", num_insertions) \o Repeat("?", num_searches)
        \o Repeat("-", Min(num_deletions, num_insertions))

\* generate_simple_data(config, filename)
GenerateSimpleData(num_insertions, num_searches, num_deletions) ==
    /\ NoCallYet
    /\ ret' = [op |-> "generate_simple_data", ok |-> TRUE, rec |-> None,
               list |-> generate_simple_data(num_insertions, num_searches,
                                             num_deletions),
               num_insertions |-> num_insertions,
               num_searches |-> num_searches,
               num_deletions |-> num_deletions]
    /\ UNCHANGED <<engine, treeVars, hashVars, kv, everDeleted>>

NextGen ==
    NoCallYet /\ \E i \in 0..TestInsertions, s \in 0..TestSearches,
                    d \in 0..TestDeletions : GenerateSimpleData(i, s, d)

SpecGen == InitNew /\ [][NextGen]_vars

\* the number of maximal runs of equal consecutive elements of s (the
\* "blocks" the test counts)
Runs(s) == Cardinality({i \in 1..Len(s) : i = 1 \/ s[i] # s[i - 1]})

\* C21: for a configuration with 50 insertions, 30 searches and 10
\* deletions the emitted operation sequence has more than three maximal
\* runs of rows with the same OP.
C21_OperationsInterleaved ==
    (/\ ret.op = "generate_simple_data"
     /\ ret.num_insertions = TestInsertions
     /\ ret.num_searches = TestSearches
     /\ ret.num_deletions = TestDeletions) => Runs(ret.list) > 3

\* the internal nodes below the root, the root included
InternalNodes == {n \in NodesBelow(root) : ~nodes[n].leaf}

\* the keys stored in the leaves below node n
KeysBelow(n) == Range(KeysOf(LeavesBelow(n)))

\* the leaves below the root that hold key k
LeavesHolding(k) ==
    {l \in Range(LeavesBelow(root)) : k \in Range(nodes[l].keys)}

\* C22: for every internal node with routing keys k[0..n-1] and children
\* c[0..n], every key stored in a leaf below c[i] is >= k[i-1] (i > 0) and
\* < k[i] (i < n); hence the descent with find_child ends in the only leaf
\* that can hold the key.
C22_RoutingInvariant ==
    TreeOn =>
       /\ \A n \in InternalNodes :
             \A i \in DOMAIN nodes[n].children :
                \A k \in KeysBelow(nodes[n].children[i]) :
                   /\ i > 1 => k >= nodes[n].keys[i - 1]
                   /\ i <= Len(nodes[n].keys) => k < nodes[n].keys[i]
       /\ \A k \in Keys :
             LeavesHolding(k) \subseteq {Last(find_leaf(nodes, root, k))}

\* a tree of three levels after deletes in which a stored key equals a
\* routing key of the root and another stored key equals a routing key of a
\* lower internal node
C22_Witness ==
    /\ TreeOn /\ stats.height >= 3 /\ everDeleted
    /\ \E k \in Keys : Present(k) /\ k \in Range(nodes[root].keys)
    /\ \E n \in InternalNodes \ {root} :
          \E k \in Keys : Present(k) /\ k \in Range(nodes[n].keys)

\* C23: in every state between tree operations every internal node has
\* len(children) = len(keys) + 1 with at least one key, and its routing
\* keys are strictly ascending.
C23_InternalNodeShape ==
    TreeOn =>
       \A n \in InternalNodes :
          /\ Len(nodes[n].children) = Len(nodes[n].keys) + 1
          /\ Len(nodes[n].keys) >= 1
          /\ StrictlyAscending(nodes[n].keys)

\* after an internal split and a delete that emptied a leaf: a root over
\* two internal nodes, each with a single key and two children
C23_Witness ==
    /\ TreeOn /\ stats.height >= 3 /\ SomeEmptyLeaf
    /\ Cardinality(InternalNodes) >= 3
    /\ \E n \in InternalNodes \ {root} : Len(nodes[n].keys) = 1

\* the places <<p, i>> where node n stands in a children list
PlacesOf(n) ==
    {pi \in InternalNodes \X (1..(Len(nodes) + 1)) :
        /\ pi[2] \in DOMAIN nodes[pi[1]].children
        /\ nodes[pi[1]].children[pi[2]] = n}

\* C24: after every tree operation the root's parent is None and every
\* other node stands in exactly one children list, exactly once, and its
\* parent field names the node that holds that list, also for the children
\* an internal split moved to the new sibling.
C24_ParentLinks ==
    TreeOn =>
       /\ nodes[root].parent = NoNode
       /\ NodesBelow(root) = DOMAIN nodes
       /\ \A n \in NonRoot :
             /\ Cardinality(PlacesOf(n)) = 1
             /\ \A pi \in PlacesOf(n) : nodes[n].parent = pi[1]

\* after an internal split: internal nodes below a root of a three-level
\* tree, the newest of them holding children that the split moved to it
C24_Witness ==
    /\ TreeOn /\ stats.height >= 3 /\ ret.op = "insert" /\ ret.ok
    /\ \E n \in InternalNodes \ {root} :
          /\ nodes[n].parent = root
          /\ \E c \in Range(nodes[n].children) : c < n /\ nodes[c].parent = n

\* the leaf that insert(k) descends to
LeafFor(k) == Last(find_leaf(nodes, root, k))

\* the arena at the moment insert(k, r) calls _handle_split on its leaf:
\* the leaf holds the new entry and is full
ArenaAtLeafSplit(k, r) ==
    [nodes EXCEPT ![LeafFor(k)] = LeafNode_insert(nodes[LeafFor(k)], k, r).node]

SplitsLeaf(k, r) ==
    /\ ~Present(k)
    /\ is_full(LeafNode_insert(nodes[LeafFor(k)], k, r).node)

\* C25: leaf split is copy-up: the original leaf keeps the lower
\* floor(n/2) keys with their records, the rest go to a new leaf placed
\* right after it in the leaf chain, the promoted key equals the first key
\* of the new leaf and stays stored there, and no key or record is lost or
\* duplicated.
C25_LeafSplitCopyUp ==
    TreeOn =>
       \A k \in Keys, r \in Recs :
          SplitsLeaf(k, r) =>
             LET ns == ArenaAtLeafSplit(k, r)
                 n == LeafFor(k)
                 old == ns[n]
                 S == LeafNode_split(ns, n)
                 left == S.nodes[n]
                 right == S.nodes[S.new]
                 half == Len(old.keys) \div 2
             IN /\ left.keys = SubSeq(old.keys, 1, half)
                /\ left.records = SubSeq(old.records, 1, half)
                /\ right.keys = SubSeq(old.keys, half + 1, Len(old.keys))
                /\ right.records = SubSeq(old.records, half + 1, Len(old.records))
                /\ left.keys \o right.keys = old.keys
                /\ left.records \o right.records = old.records
                /\ S.promoted = right.keys[1]
                /\ S.new \notin DOMAIN ns /\ right.leaf
                /\ left.next = S.new /\ right.prev = n
                /\ right.next = old.next /\ left.prev = old.prev
                /\ old.next # NoNode => S.nodes[old.next].prev = S.new
                /\ \A m \in DOMAIN ns \ {n, old.next} : S.nodes[m] = ns[m]

\* after an insert into a tree that has split: the next insert of an absent
\* key splits a leaf that has a right neighbour
C25_Witness ==
    /\ TreeOn /\ ret.op = "insert" /\ ret.ok /\ stats.height >= 2
    /\ \E k \in Keys : SplitsLeaf(k, "r1") /\ nodes[LeafFor(k)].next # NoNode

\* the arena at the moment insert(k, r) calls _handle_split on the parent of
\* its leaf: the leaf has been split and insert_child has put the promoted
\* key and the new leaf into the parent
ArenaAtParentSplit(k, r) ==
    LET S == LeafNode_split(ArenaAtLeafSplit(k, r), LeafFor(k))
    IN insert_child(S.nodes, nodes[LeafFor(k)].parent, S.promoted, S.new)

SplitsParent(k, r) ==
    /\ SplitsLeaf(k, r)
    /\ nodes[LeafFor(k)].parent # NoNode
    /\ is_full(ArenaAtParentSplit(k, r)[nodes[LeafFor(k)].parent])

\* how often key occurs among the routing keys of the internal nodes of ns
Occurrences(ns, key) ==
    Cardinality({ni \in (DOMAIN ns) \X (1..(Len(ns) + 1)) :
                    /\ ~ns[ni[1]].leaf
                    /\ ni[2] \in DOMAIN ns[ni[1]].keys
                    /\ ns[ni[1]].keys[ni[2]] = key})

\* ---- insert-only runs
\* A tree that only grows: inserts of keys 0..MaxGrowKey in any order, for
\* every order 3..MaxOrder.  At order 3 seven ascending keys split a leaf,
\* the root and an internal node below the root, and ten keys reach a split
\* that runs from a leaf through an internal node into the root.
MaxGrowKey == 9
GrowKeys == 0..MaxGrowKey

GrowInit ==
    /\ engine = "tree"
    /\ order \in min_order..MaxOrder
    /\ root = TreeNew.root
    /\ nodes = TreeNew.nodes
    /\ stats = TreeNew.stats
    /\ bucket_capacity = min_capacity
    /\ global_depth = HashNew(min_capacity).global_depth
    /\ directory = HashNew(min_capacity).directory
    /\ buckets = HashNew(min_capacity).buckets
    /\ hstats = HashNew(min_capacity).stats
    /\ ret = RetInit
    /\ kv = [k \in GrowKeys |-> None]
    /\ everDeleted = FALSE

GrowNext ==
    \/ \E k \in GrowKeys : TreeInsert(k, "r1")
    \/ TreeResetStats

SpecGrow == GrowInit /\ [][GrowNext]_vars

\* C26: internal split is move-up: with mid = floor(n/2) it promotes
\* keys[mid], which afterwards is in neither half; the original keeps
\* keys[0..mid-1] and children[0..mid], the new node gets keys[mid+1..] and
\* children[mid+1..], and the promoted key is put into the parent (or a new
\* root) exactly once.
C26_InternalSplitMoveUp ==
    TreeOn =>
       \A k \in DOMAIN kv, r \in Recs :
          SplitsParent(k, r) =>
             LET ns == ArenaAtParentSplit(k, r)
                 p == nodes[LeafFor(k)].parent
                 old == ns[p]
                 mid == Len(old.keys) \div 2
                 S == InternalNode_split(ns, p)
                 left == S.nodes[p]
                 right == S.nodes[S.new]
                 after == handle_split([root |-> root, nodes |-> ns, stats |-> stats], p)
             IN /\ S.promoted = old.keys[mid + 1]
                /\ left.keys = SubSeq(old.keys, 1, mid)
                /\ left.children = SubSeq(old.children, 1, mid + 1)
                /\ right.keys = SubSeq(old.keys, mid + 2, Len(old.keys))
                /\ right.children = SubSeq(old.children, mid + 2, Len(old.children))
                /\ S.promoted \notin Range(left.keys) \cup Range(right.keys)
                /\ ~right.leaf /\ S.new \notin DOMAIN ns
                /\ LET up == IF old.parent = NoNode
                             THEN create_new_root([root |-> root, nodes |-> S.nodes,
                                                   stats |-> stats],
                                                  p, S.new, S.promoted).nodes
                             ELSE insert_child(S.nodes, old.parent, S.promoted, S.new)
                       q == up[p].parent
                   IN /\ q # NoNode /\ up[S.new].parent = q
                      /\ Cardinality({i \in DOMAIN up[q].keys :
                                        up[q].keys[i] = S.promoted}) = 1
                      /\ \E i \in DOMAIN up[q].keys :
                            /\ up[q].keys[i] = S.promoted
                            /\ up[q].children[i] = p
                            /\ up[q].children[i + 1] = S.new
                /\ Occurrences(after.nodes, S.promoted) = 1
                /\ after.nodes = tree_insert(Tree, k, r).T.nodes

\* after an insert into a three-level tree: the next insert of an absent key
\* splits a leaf and then its parent, an internal node below the root
C26_Witness ==
    /\ TreeOn /\ ret.op = "insert" /\ ret.ok /\ stats.height = 3
    /\ \E k \in DOMAIN kv :
          SplitsParent(k, "r1") /\ nodes[LeafFor(k)].parent # root

\* the nodes on which _handle_split runs, in the order in which it splits
\* them, when it is called on node n of arena ns
RECURSIVE split_path(_, _)
split_path(ns, n) ==
    LET S == IF ns[n].leaf THEN LeafNode_split(ns, n) ELSE InternalNode_split(ns, n)
        p == ns[n].parent
    IN IF p = NoNode
       THEN <<n>>
       ELSE LET ns2 == insert_child(S.nodes, p, S.promoted, S.new)
            IN IF is_full(ns2[p]) THEN <<n>> \o split_path(ns2, p) ELSE <<n>>

\* insert(k, r) splits the current root
SplitsRoot(k, r) ==
    /\ SplitsLeaf(k, r)
    /\ root \in Range(split_path(ArenaAtLeafSplit(k, r), LeafFor(k)))

\* C27: the root is replaced, by a new internal node with one key and two
\* children (the old root and the node split off it), exactly in the steps
\* in which the current root splits, and stats['height'] grows by one in
\* exactly those steps; no other step (delete and reset_stats among them)
\* changes it.  So stats['height'] is always the number of node levels from
\* the root to every leaf, and as long as nothing has been deleted the height
\* is above 1 if and only if at least `order` distinct keys are in the tree.
C27_RootGrowth ==
    [][TreeOn =>
         LET grew == \E k \in DOMAIN kv, r \in Recs :
                        /\ ret'.op = "insert" /\ ret'.ok
                        /\ kv[k] = None /\ kv'[k] = r
                        /\ SplitsRoot(k, r)
         IN /\ (root' # root) <=> grew
            /\ grew => /\ root' \notin DOMAIN nodes
                       /\ ~nodes'[root'].leaf
                       /\ nodes'[root'].parent = NoNode
                       /\ Len(nodes'[root'].keys) = 1
                       /\ Len(nodes'[root'].children) = 2
                       /\ nodes'[root'].children[1] = root
                       /\ nodes'[root'].children[2] \notin DOMAIN nodes
                       /\ nodes'[root'].children[2] # root'
                       /\ nodes'[nodes'[root'].children[2]].leaf = nodes[root].leaf
            /\ stats'.height = IF grew THEN stats.height + 1 ELSE stats.height
            /\ ret'.op \in {"delete", "reset_stats"} => stats'.height = stats.height
            /\ LeafDepths(root, 1) = {stats.height}
            /\ ~everDeleted =>
                  (stats.height > 1 <=> Cardinality({k \in DOMAIN kv : Present(k)}) >= order)
      ]_vars

\* an insert has just split a leaf and then the internal root above it: the
\* tree has a third level under a new root with one key and two children
C27_Witness ==
    /\ TreeOn /\ ret.op = "insert" /\ ret.ok
    /\ stats.height = 3 /\ stats.splits = 2
    /\ Len(nodes[root].keys) = 1 /\ Len(nodes[root].children) = 2
    /\ root = Len(nodes)

\* sequence s without its i-th element
Without(s, i) == SubSeq(s, 1, i - 1) \o SubSeq(s, i + 1, Len(s))

\* C28: tree delete never rebalances: a delete(k) that finds k takes the
\* entry of k (key and record) out of the one leaf that holds it and leaves
\* that leaf's links, every other node, the set of nodes, the root, the
\* height and the splits and merges counters as they were, also when the
\* leaf becomes empty or falls below the minimum key count.
C28_DeleteFrame ==
    [][TreeOn /\ ret'.op = "delete" /\ ret'.rec # None =>
         \E k \in DOMAIN kv :
            /\ kv[k] # None /\ kv'[k] = None /\ ret'.rec = kv[k]
            /\ \E l \in LeavesHolding(k) :
                  /\ LeavesHolding(k) = {l}
                  /\ DOMAIN nodes' = DOMAIN nodes
                  /\ \A n \in DOMAIN nodes : n # l => nodes'[n] = nodes[n]
                  /\ \E i \in DOMAIN nodes[l].keys :
                        /\ nodes[l].keys[i] = k
                        /\ nodes'[l] = [nodes[l] EXCEPT !.keys = Without(@, i),
                                                        !.records = Without(@, i)]
            /\ root' = root
            /\ stats'.height = stats.height
            /\ stats'.splits = stats.splits
            /\ stats'.merges = stats.merges
      ]_vars

\* a delete has just removed the last key of a tree of height 3: the leaf
\* it was taken from is empty, and so is every other leaf
C28_Witness ==
    /\ TreeOn /\ ret.op = "delete" /\ ret.rec # None
    /\ stats.height = 3
    /\ \A k \in DOMAIN kv : ~Present(k)
    /\ \A l \in Range(LeavesBelow(root)) : EmptyLeaf(l)
    /\ Len(LeavesBelow(root)) >= 4

\* the two halves, as [leaf, left, right] with the key sequences the split
\* node keeps and the new node gets, of every split that _handle_split
\* makes when it is called on node n of arena ns
RECURSIVE split_halves(_, _)
split_halves(ns, n) ==
    LET S == IF ns[n].leaf THEN LeafNode_split(ns, n) ELSE InternalNode_split(ns, n)
        p == ns[n].parent
        h == [leaf |-> ns[n].leaf, left |-> S.nodes[n].keys, right |-> S.nodes[S.new].keys]
    IN IF p = NoNode
       THEN <<h>>
       ELSE LET ns2 == insert_child(S.nodes, p, S.promoted, S.new)
            IN IF is_full(ns2[p]) THEN <<h>> \o split_halves(ns2, p) ELSE <<h>>

\* C29: on insert-only runs, for every order, each split leaves both halves
\* with at least ceil(order/2) - 1 keys; every non-root leaf and every
\* non-root internal node has at least the minimum number of keys, and once
\* insert has returned no node holds `order` or more keys.
C29_SplitOccupancy ==
    TreeOn =>
       /\ \A k \in DOMAIN kv, r \in Recs :
             SplitsLeaf(k, r) =>
                LET H == split_halves(ArenaAtLeafSplit(k, r), LeafFor(k))
                IN \A i \in DOMAIN H :
                      /\ Len(H[i].left) >= (order + 1) \div 2 - 1
                      /\ Len(H[i].right) >= (order + 1) \div 2 - 1
                      /\ Len(H[i].left) < order /\ Len(H[i].right) < order
       /\ \A n \in NonRoot : ~is_underflow(nodes[n])
       /\ \A n \in NonRoot : Len(nodes[n].keys) >= (order + 1) \div 2 - 1
       /\ \A n \in NodesBelow(root) : ~is_full(nodes[n]) /\ Len(nodes[n].keys) < order
       /\ NodesBelow(root) = DOMAIN nodes

\* an insert has just split a leaf, the internal node above it and the
\* root; leaves and internal nodes below the root sit at the minimum
C29_Witness ==
    /\ TreeOn /\ ret.op = "insert" /\ ret.ok
    /\ stats.splits = 3
    /\ \E n \in NonRoot : nodes[n].leaf /\ Len(nodes[n].keys) = min_keys
    /\ \E n \in NonRoot : ~nodes[n].leaf /\ Len(nodes[n].keys) = min_keys
    /\ \E n \in NonRoot : ~nodes[n].leaf /\ nodes[n].parent # root

\* ---- a hash over dense keys
\* Inserts, deletes and searches of the keys 0..MaxFillKey on a hash of
\* capacity min_capacity.  Dense keys fill the buckets of both parities, so
\* a bucket shared by several directory slots (local depth below the global
\* depth) overflows and is split without a doubling, next to the overflows
\* at full depth that double the directory.
MaxFillKey == 8
FillKeys == 0..MaxFillKey

FillInit ==
    /\ engine = "hash"
    /\ order = min_order
    /\ root = TreeNew.root
    /\ nodes = TreeNew.nodes
    /\ stats = TreeNew.stats
    /\ bucket_capacity = min_capacity
    /\ global_depth = HashNew(bucket_capacity).global_depth
    /\ directory = HashNew(bucket_capacity).directory
    /\ buckets = HashNew(bucket_capacity).buckets
    /\ hstats = HashNew(bucket_capacity).stats
    /\ ret = RetInit
    /\ kv = [k \in FillKeys |-> None]
    /\ everDeleted = FALSE

FillNext ==
    \/ \E k \in FillKeys : HashInsert(k, "r1")
    \/ \E k \in FillKeys : HashSearch(k)
    \/ \E k \in FillKeys : HashDelete(k)
    \/ HashResetStats

SpecFill == FillInit /\ [][FillNext]_vars

\* the hash values on which _double_directory is called, in order, while
\* _handle_overflow(key, record) runs on H
RECURSIVE doubling_calls(_, _, _)
doubling_calls(H, key, record) ==
    LET index == hash_index(H, key)
        bucket == H.buckets[H.directory[index + 1]]
        doubles == ~(bucket.local_depth < H.global_depth)
        H1 == IF doubles
              THEN LET D == double_directory(H)
                   IN split_bucket(D, hash_index(D, key))
              ELSE split_bucket(H, index)
        H2 == [H1 EXCEPT !.stats.bucket_reads = @ + 1]
        id == H2.directory[hash_index(H2, key) + 1]
        r == Bucket_insert(H2.buckets[id], key, record)
    IN (IF doubles THEN <<H>> ELSE <<>>)
       \o (IF ~r.ok THEN doubling_calls(H2, key, record) ELSE <<>>)

\* insert(k, r) finds the bucket of k full and k not in it, and calls
\* _handle_overflow
Overflows(k) ==
    LET b == buckets[directory[hash_index(Hash, k) + 1]]
    IN Bucket_is_full(b) /\ Bucket_search(b, k) = None

\* the hash on which insert(k, r) calls _handle_overflow
HashAtOverflow == [Hash EXCEPT !.stats.bucket_reads = @ + 1]

\* C30: the directory is doubled only while an overflow is handled, and
\* then only when the overflowing bucket's local depth equals the global
\* depth; each doubling adds one to global_depth and gives a directory of
\* twice the size with new[i] = new[i + old_size] = old[i] for every old
\* index i, and it creates, changes and drops no bucket.
C30_DoublingOnlyOnOverflow ==
    [][HashOn =>
         /\ (\/ Len(directory') > Len(directory)
             \/ global_depth' > global_depth
             \/ hstats'.directory_doublings > hstats.directory_doublings) =>
               \E k \in DOMAIN kv, r \in Recs :
                  /\ ret'.op = "insert" /\ ret'.ok
                  /\ kv[k] = None /\ kv'[k] = r
                  /\ Overflows(k)
                  /\ LET calls == doubling_calls(HashAtOverflow, k, r)
                     IN /\ calls # <<>>
                        /\ global_depth' = global_depth + Len(calls)
                        /\ Len(directory') = Len(directory) * Pow2(Len(calls))
                        /\ hstats'.directory_doublings =
                              hstats.directory_doublings + Len(calls)
         /\ \A k \in DOMAIN kv, r \in Recs :
               Overflows(k) =>
                  LET calls == doubling_calls(HashAtOverflow, k, r)
                  IN \A c \in DOMAIN calls :
                        LET old == calls[c]
                            new == double_directory(old)
                            old_size == Len(old.directory)
                        IN /\ old.buckets[old.directory[hash_index(old, k) + 1]].local_depth
                                 = old.global_depth
                           /\ new.global_depth = old.global_depth + 1
                           /\ Len(new.directory) = 2 * old_size
                           /\ \A i \in 1..old_size :
                                 /\ new.directory[i] = old.directory[i]
                                 /\ new.directory[i + old_size] = old.directory[i]
                           /\ new.buckets = old.buckets
      ]_vars

\* an insert has just doubled the directory twice, from depth 1 to depth 3,
\* and buckets of a smaller local depth are shared by slots i and i + 4
C30_Witness ==
    /\ HashOn /\ ret.op = "insert" /\ ret.ok
    /\ hstats.directory_doublings = 2
    /\ global_depth = 3 /\ Len(directory) = 8
    /\ \E i \in 1..4 : directory[i] = directory[i + 4]
    /\ \E i \in 1..4 : directory[i] # directory[i + 4]

\* the calls of _split_bucket, in order, while _handle_overflow(key, record)
\* runs on H: the hash at the start of the round, the hash on which
\* _split_bucket is called and its index argument
RECURSIVE split_calls(_, _, _)
split_calls(H, key, record) ==
    LET index == hash_index(H, key)
        bucket == H.buckets[H.directory[index + 1]]
        D == IF bucket.local_depth < H.global_depth THEN H ELSE double_directory(H)
        at == hash_index(D, key)
        H1 == split_bucket(D, at)
        H2 == [H1 EXCEPT !.stats.bucket_reads = @ + 1]
        id == H2.directory[hash_index(H2, key) + 1]
        r == Bucket_insert(H2.buckets[id], key, record)
    IN <<[round |-> H, H |-> D, index |-> at]>>
       \o (IF ~r.ok THEN split_calls(H2, key, record) ELSE <<>>)

\* C31: splitting the bucket B at a directory slot repoints exactly the
\* slots that referenced B, slot i to the new second bucket if bit
\* (new_local_depth - 1) of i is set and to the new first bucket otherwise;
\* the two new buckets are the halves of B; every other slot is unchanged;
\* and in a round where B's local depth is below the global depth the
\* global depth and the directory length stay as they were.
C31_SplitRepointsOwnSlots ==
    HashOn =>
      \A k \in DOMAIN kv, r \in Recs :
         Overflows(k) =>
            LET calls == split_calls(HashAtOverflow, k, r)
            IN \A c \in DOMAIN calls :
                  LET old == calls[c].H
                      B == old.directory[calls[c].index + 1]
                      new == split_bucket(old, calls[c].index)
                      depth == old.buckets[B].local_depth + 1
                      halves == Bucket_split(old.buckets[B])
                  IN /\ DOMAIN new.directory = DOMAIN old.directory
                     /\ \A i \in DOMAIN old.directory :
                           IF old.directory[i] = B
                           THEN /\ new.directory[i] \notin DOMAIN old.buckets
                                /\ new.buckets[new.directory[i]] =
                                      IF BitSet(i - 1, depth - 1)
                                      THEN halves[2] ELSE halves[1]
                                /\ \A j \in DOMAIN old.directory :
                                      (old.directory[j] = B
                                       /\ BitSet(j - 1, depth - 1) = BitSet(i - 1, depth - 1))
                                      <=> new.directory[j] = new.directory[i]
                           ELSE /\ new.directory[i] = old.directory[i]
                                /\ new.buckets[new.directory[i]] =
                                      old.buckets[old.directory[i]]
                     /\ new.global_depth = old.global_depth
                     /\ LET start == calls[c].round
                            b == start.buckets[start.directory[hash_index(start, k) + 1]]
                        IN b.local_depth < start.global_depth =>
                              /\ new.global_depth = start.global_depth
                              /\ Len(new.directory) = Len(start.directory)

\* an insert has just split a bucket that four slots of a directory of
\* depth 3 shared, without a doubling
C31_Witness ==
    /\ HashOn /\ ret.op = "insert" /\ ret.ok
    /\ hstats.splits = 1 /\ hstats.directory_doublings = 0
    /\ global_depth = 3
    /\ directory[2] = directory[6] /\ directory[4] = directory[8]
    /\ directory[2] # directory[4]
    /\ buckets[directory[2]].records # <<>>
    /\ buckets[directory[4]].records # <<>>

\* ---- one bucket on its own
\* A Bucket(local_depth, capacity) outside any directory, with local depths
\* 0..MaxDepth and capacities 1..MaxCapacity + 1, filled and emptied by its
\* own insert and delete over the keys 0..MaxKey, and split.  split()
\* builds two new buckets and leaves the bucket it is called on as it was.
MaxDepth == 2

BucketInit ==
    /\ engine = "bucket"
    /\ order = min_order
    /\ root = TreeNew.root
    /\ nodes = TreeNew.nodes
    /\ stats = TreeNew.stats
    /\ bucket_capacity \in 1..(MaxCapacity + 1)
    /\ global_depth \in 0..MaxDepth
    /\ directory = <<1>>
    /\ buckets = [i \in {1} |-> Bucket(global_depth, bucket_capacity)]
    /\ hstats = HashNew(bucket_capacity).stats
    /\ ret = RetInit
    /\ kv = [k \in Keys |-> None]
    /\ everDeleted = FALSE

BucketInsert(key, record) ==
    /\ engine = "bucket"
    /\ LET r == Bucket_insert(buckets[1], key, record)
       IN /\ buckets' = [buckets EXCEPT ![1] = r.bucket]
          /\ ret' = RetBool("insert", r.ok)
          /\ kv' = IF r.ok THEN [kv EXCEPT ![key] = record] ELSE kv
    /\ UNCHANGED <<engine, treeVars, bucket_capacity, global_depth, directory,
                   hstats, everDeleted>>

BucketDelete(key) ==
    /\ engine = "bucket"
    /\ LET r == Bucket_delete(buckets[1], key)
       IN /\ buckets' = [buckets EXCEPT ![1] = r.bucket]
          /\ ret' = RetOpt("delete", r.rec)
          /\ kv' = IF r.rec # None THEN [kv EXCEPT ![key] = None] ELSE kv
          /\ everDeleted' = (everDeleted \/ r.rec # None)
    /\ UNCHANGED <<engine, treeVars, bucket_capacity, global_depth, directory,
                   hstats>>

BucketSplit ==
    /\ engine = "bucket"
    /\ ret' = [op |-> "split", ok |-> TRUE, rec |-> None,
               list |-> Bucket_split(buckets[1])]
    /\ UNCHANGED <<engine, treeVars, hashVars, kv, everDeleted>>

BucketNext ==
    \/ \E k \in Keys, r \in Recs : BucketInsert(k, r)
    \/ \E k \in Keys : BucketDelete(k)
    \/ BucketSplit

SpecBucket == BucketInit /\ [][BucketNext]_vars

\* the set of the entries of a records list
Entries(records) == Range(records)

\* C32: Bucket.split partitions the entries: both result buckets have local
\* depth old + 1 and the capacity of the original; every entry of the
\* original is in exactly one of them, in the second if bit
\* (new_local_depth - 1) of its key is 1 and in the first if it is 0; the
\* two entry sets together are the original's, with no entry added or
\* repeated.
C32_SplitPartitions ==
    (engine = "bucket" /\ ret.op = "split") =>
       LET b == buckets[1]
           b0 == ret.list[1]
           b1 == ret.list[2]
           new_local_depth == b.local_depth + 1
       IN /\ b0.local_depth = new_local_depth /\ b1.local_depth = new_local_depth
          /\ b0.capacity = b.capacity /\ b1.capacity = b.capacity
          /\ \A e \in Entries(b.records) :
                IF (e[1] \div Pow2(new_local_depth - 1)) % 2 = 1
                THEN e \in Entries(b1.records) /\ e \notin Entries(b0.records)
                ELSE e \in Entries(b0.records) /\ e \notin Entries(b1.records)
          /\ Entries(b0.records) \cup Entries(b1.records) = Entries(b.records)
          /\ Len(b0.records) + Len(b1.records) = Len(b.records)

\* a full bucket of three entries has been split and both halves got some
C32_Witness ==
    /\ engine = "bucket" /\ ret.op = "split"
    /\ Len(buckets[1].records) = 3 /\ Bucket_is_full(buckets[1])
    /\ buckets[1].local_depth >= 1
    /\ ret.list[1].records # <<>> /\ ret.list[2].records # <<>>

\* C33: key placement: after every completed operation every key k stored
\* in a bucket B is found where _hash sends it, directory[k & (2^global_depth
\* - 1)] is B, and agrees with every slot index of B on the low local_depth
\* bits; splits, doublings, buddy merges and halvings keep it so.
C33_KeyPlacement ==
    HashOn =>
       \A id \in DOMAIN buckets :
          \A e \in Range(buckets[id].records) :
             /\ directory[(e[1] % Pow2(global_depth)) + 1] = id
             /\ \A i \in SlotsOf(id) :
                   (i - 1) % Pow2(buckets[id].local_depth)
                      = e[1] % Pow2(buckets[id].local_depth)

\* a delete has just merged two buddies and halved the directory, and the
\* merged bucket and a bucket of depth 1 hold keys
C33_Witness ==
    /\ HashOn /\ ret.op = "delete" /\ ret.rec # None
    /\ hstats.bucket_writes = 2 /\ global_depth = 2
    /\ hstats.directory_doublings = 0
    /\ \E id \in DOMAIN buckets :
          buckets[id].local_depth = 2 /\ Len(buckets[id].records) = 2
    /\ \E id \in DOMAIN buckets :
          buckets[id].local_depth = 1 /\ buckets[id].records # <<>>

\* the sum of f[x] over the elements x of S
RECURSIVE SumOver(_, _)
SumOver(f, S) ==
    IF S = {} THEN 0
    ELSE LET x == CHOOSE y \in S : TRUE
         IN f[x] + SumOver(f, S \ {x})

\* ExtendibleHash.get_load_factor, as the two sums it divides
get_load_factor(H) ==
    LET unique_buckets == Range(H.directory)
    IN [total_records |->
           SumOver([b \in unique_buckets |-> Len(H.buckets[b].records)], unique_buckets),
        total_capacity |->
           SumOver([b \in unique_buckets |-> H.buckets[b].capacity], unique_buckets)]

\* the keys stored in the buckets of the directory
StoredKeys ==
    UNION {{e[1] : e \in Range(buckets[b].records)} : b \in Range(directory)}

\* C34: after every completed hash operation every bucket of the directory
\* holds at most bucket_capacity entries and no key occurs twice in the
\* directory's buckets; so the number of stored keys is at most capacity
\* times the number of distinct buckets (load factor <= 1) and at most
\* capacity * 2^global_depth, and with more than 2 * capacity keys stored
\* global_depth is above its initial value 1.
C34_CapacityAndLoad ==
    HashOn =>
       LET lf == get_load_factor(Hash)
           stored == lf.total_records
       IN /\ \A b \in Range(directory) :
                /\ Len(buckets[b].records) <= bucket_capacity
                /\ buckets[b].capacity = bucket_capacity
          /\ stored = Cardinality(StoredKeys)
          /\ StoredKeys = {k \in DOMAIN kv : Present(k)}
          /\ stored <= bucket_capacity * count_unique_buckets(directory)
          /\ lf.total_records <= lf.total_capacity
          /\ stored <= bucket_capacity * Pow2(global_depth)
          /\ stored > 2 * bucket_capacity => global_depth > HashNew(bucket_capacity).global_depth

\* more than 2 * capacity keys are stored after an insert, some bucket is
\* full and another is not, and the directory has grown to depth 3
C34_Witness ==
    /\ HashOn /\ ret.op = "insert" /\ ret.ok
    /\ Cardinality(StoredKeys) > 2 * bucket_capacity
    /\ global_depth = 3
    /\ \E b \in Range(directory) : Bucket_is_full(buckets[b])
    /\ \E b \in Range(directory) : ~Bucket_is_full(buckets[b])

\* the hash on which delete(k) calls _try_merge_buckets: k's entry is out
\* of its bucket and the write is counted
HashAtMerge(k) ==
    LET H1 == [Hash EXCEPT !.stats.bucket_reads = @ + 1]
        id == H1.directory[hash_index(H1, k) + 1]
    IN [H1 EXCEPT !.buckets[id] = Bucket_delete(H1.buckets[id], k).bucket,
                  !.stats.bucket_writes = @ + 1]

\* C35: after a successful delete from bucket B a buddy merge happens if
\* and only if B's local depth d is above 1, the bucket at index (first index
\* of B) XOR 2^(d-1) is another instance of the same local depth d, and the
\* two hold at most capacity entries together; the merged bucket then has
\* local depth d - 1 and exactly the entries of both, every slot of either
\* references it and no other slot changes.  No bucket ever has a local
\* depth below 1.
C35_BuddyMerge ==
    HashOn =>
       /\ \A b \in Range(directory) : buckets[b].local_depth >= 1
       /\ \A k \in DOMAIN kv :
             Present(k) =>
                LET H == HashAtMerge(k)
                    B == H.directory[hash_index(H, k) + 1]
                    d == H.buckets[B].local_depth
                    first == (CHOOSE i \in DOMAIN H.directory :
                                 /\ H.directory[i] = B
                                 /\ \A j \in 1..(i - 1) : H.directory[j] # B) - 1
                    other == IF (first \div Pow2(d - 1)) % 2 = 1
                             THEN first - Pow2(d - 1) ELSE first + Pow2(d - 1)
                    buddy == H.directory[other + 1]
                    fits == /\ d > 1
                            /\ buddy # B
                            /\ H.buckets[buddy].local_depth = d
                            /\ Len(H.buckets[B].records) + Len(H.buckets[buddy].records)
                                  <= H.buckets[B].capacity
                    M == try_merge_buckets(H, B)
                IN /\ other < Len(H.directory)
                   /\ (M # H) <=> fits
                   /\ fits =>
                         LET m == M.directory[first + 1]
                         IN /\ m \notin {B, buddy}
                            /\ M.buckets[m].local_depth = d - 1
                            /\ M.buckets[m].capacity = H.buckets[B].capacity
                            /\ Range(M.buckets[m].records) =
                                  Range(H.buckets[B].records) \cup Range(H.buckets[buddy].records)
                            /\ Len(M.buckets[m].records) =
                                  Len(H.buckets[B].records) + Len(H.buckets[buddy].records)
                            /\ \A i \in DOMAIN H.directory :
                                  IF H.directory[i] \in {B, buddy}
                                  THEN M.directory[i] = m
                                  ELSE /\ M.directory[i] = H.directory[i]
                                       /\ M.buckets[M.directory[i]] = H.buckets[H.directory[i]]
                            /\ M.global_depth = H.global_depth
                            /\ DOMAIN M.directory = DOMAIN H.directory
                   /\ hash_delete(Hash, k).H = try_shrink_directory(M)

\* a delete has just merged two buddies of depth 2 into a bucket of depth 1
\* that holds entries of both, while the other pair of depth 2 keeps the
\* directory at depth 2
C35_Witness ==
    /\ HashOn /\ ret.op = "delete" /\ ret.rec # None
    /\ hstats.bucket_writes = 2 /\ global_depth = 2
    /\ \E b \in Range(directory) :
          /\ buckets[b].local_depth = 1
          /\ \E e, f \in Range(buckets[b].records) : e[1] % 4 # f[1] % 4
    /\ \E b \in Range(directory) : buckets[b].local_depth = 2

\* the greatest element of a non-empty set of numbers
Greatest(S) == CHOOSE x \in S : \A y \in S : y <= x

\* C36: the directory is never larger than needed at rest: in every state
\* between operations global_depth is the greatest local depth of the
\* buckets in the directory, and a halving (which only a delete makes) drops
\* a second half that is slot for slot the first half.
C36_DirectoryTight ==
    HashOn =>
       /\ global_depth = Greatest({buckets[b].local_depth : b \in Range(directory)})
       /\ ~(global_depth > 1 /\ \A b \in Range(directory) :
                                   buckets[b].local_depth < global_depth)
       /\ \A k \in DOMAIN kv :
             Present(k) =>
                LET M == try_merge_buckets(HashAtMerge(k), directory[hash_index(Hash, k) + 1])
                    S == try_shrink_directory(M)
                    half == Len(M.directory) \div 2
                IN S.directory # M.directory =>
                      /\ S.global_depth = M.global_depth - 1
                      /\ Len(S.directory) = half
                      /\ \A i \in 1..half :
                            /\ S.directory[i] = M.directory[i]
                            /\ M.directory[i + half] = M.directory[i]
                      /\ \A b \in Range(M.directory) :
                            b \in Range(S.directory) /\ S.buckets[b] = M.buckets[b]

\* a delete has just merged the last two buckets of depth 2 and halved the
\* directory to depth 1, with both remaining buckets full
C36_Witness ==
    /\ HashOn /\ ret.op = "delete" /\ ret.rec # None
    /\ hstats.bucket_writes = 2
    /\ global_depth = 1 /\ Len(directory) = 2
    /\ \A b \in Range(directory) : Bucket_is_full(buckets[b])

\* C37: compaction does not cascade: a successful hash delete makes at most
\* one buddy merge and then at most one halving, so it lowers the number of
\* distinct buckets by at most 1 and global_depth by at most 1 (and writes
\* one bucket for the removal and at most one for the merge); a delete that
\* finds nothing merges and halves nothing.
C37_CompactionOnce ==
    [][(HashOn /\ ret'.op = "delete") =>
         IF ret'.rec # None
         THEN /\ count_unique_buckets(directory') <= count_unique_buckets(directory)
              /\ count_unique_buckets(directory') >= count_unique_buckets(directory) - 1
              /\ global_depth' <= global_depth
              /\ global_depth' >= global_depth - 1
              /\ Len(directory') \in {Len(directory), Len(directory) \div 2}
              /\ (Len(directory') < Len(directory)) <=> (global_depth' < global_depth)
              /\ hstats'.bucket_writes - hstats.bucket_writes \in {1, 2}
              /\ (count_unique_buckets(directory') < count_unique_buckets(directory))
                    <=> (hstats'.bucket_writes = hstats.bucket_writes + 2)
         ELSE /\ directory' = directory
              /\ global_depth' = global_depth
              /\ buckets' = buckets
              /\ hstats'.bucket_writes = hstats.bucket_writes
      ]_vars

\* a delete has just merged two buddies and halved the directory, and the
\* merged bucket and its own buddy would fit into one bucket: a second
\* round would have merged again
C37_Witness ==
    /\ HashOn /\ ret.op = "delete" /\ ret.rec # None
    /\ hstats.bucket_writes = 2 /\ global_depth = 2
    /\ \E a, b \in Range(directory) :
          /\ Mergeable(a, b)
          /\ \/ buckets[a].records = <<>>
             \/ buckets[b].records = <<>>

\* the number of bits of a non-negative integer (at least 1)
RECURSIVE BitWidth(_)
BitWidth(n) == IF n <= 1 THEN 1 ELSE 1 + BitWidth(n \div 2)

\* the local depth of the bucket that key is addressed to in H
AddressedDepth(H, key) == H.buckets[H.directory[hash_index(H, key) + 1]].local_depth

\* C38: overflow handling terminates: with distinct keys of at most W bits
\* and capacity >= 2, every insert of an absent key into a full bucket
\* finishes and returns True after at most W rounds of _handle_overflow,
\* each round raising the local depth of the bucket the key is addressed
\* to (by a split, after a doubling when the bucket is at full depth), and
\* global_depth and every local depth stay at or below W.
C38_OverflowTerminates ==
    HashOn =>
       LET W == BitWidth(Greatest(DOMAIN kv))
       IN /\ bucket_capacity >= 2
          /\ global_depth <= W
          /\ \A b \in Range(directory) : buckets[b].local_depth <= W
          /\ \A k \in DOMAIN kv, r \in Recs :
                Overflows(k) =>
                   LET calls == split_calls(HashAtOverflow, k, r)
                       done == hash_insert(Hash, k, r)
                       after(c) == IF c < Len(calls) THEN calls[c + 1].round ELSE done.H
                   IN /\ Len(calls) >= 1 /\ Len(calls) <= W
                      /\ done.ok
                      /\ hash_search(done.H, k).rec = r
                      /\ done.H.stats.splits = hstats.splits + Len(calls)
                      /\ \A c \in DOMAIN calls :
                            /\ AddressedDepth(after(c), k)
                                  > AddressedDepth(calls[c].round, k)
                            /\ after(c).global_depth >= calls[c].round.global_depth
                            /\ (AddressedDepth(calls[c].round, k) = calls[c].round.global_depth)
                                  => after(c).global_depth = calls[c].round.global_depth + 1

\* an insert has just gone through two rounds: a split of a shared bucket
\* without a doubling left the bucket full, and a doubling with a second
\* split made room
C38_Witness ==
    /\ HashOn /\ ret.op = "insert" /\ ret.ok
    /\ hstats.splits = 2 /\ hstats.directory_doublings = 1
    /\ global_depth = 3
    /\ Cardinality(StoredKeys) >= 3

\* ======================================================== tools/siogen.py
\* The generator's state is kept in ret: the remaining counts
\* par_dict[INSERT], [DELETE], [SEARCH] (fields INSERT, DELETE, SEARCH), the
\* shuffled key_list, keys_set, rec_list (field list; a row is [OP, A1], the
\* other attributes are left out) and the place in gen_data (field pc).
\* Fields insertions, deletions, searches keep the requested numbers; before
\* is the sum INSERT + DELETE + SEARCH at the head of the running iteration
\* of the while loop, skipped tells that gen_deletions returned early in it,
\* returned_early that it ever did, and looped that an iteration has been
\* completed.  Every randint and shuffle is a
\* choice among all its outcomes; the key of a search row is drawn from
\* 1..MaxSearchKey at most.
MaxInsertions == 3
MaxSearches == 2
MaxSearchKey == 2
search_key_limit == 100

\* the lists of n distinct elements of S, in every order
RECURSIVE Arrangements(_, _)
Arrangements(S, n) ==
    IF n = 0 THEN {<<>>}
    ELSE UNION {{<<x>> \o t : t \in Arrangements(S \ {x}, n - 1)} : x \in S}

Remaining(S) == S.INSERT + S.DELETE + S.SEARCH

Row(op, key) == [OP |-> op, A1 |-> key]

RowsOf(op, keys) == [i \in DOMAIN keys |-> Row(op, keys[i])]

\* gen_insertions with the number it draws
gen_insertions(S, ins_num) ==
    IF Len(S.key_list) = 0 THEN S
    ELSE LET ins_list == Upto(S.key_list, ins_num)
         IN [S EXCEPT !.INSERT = @ - ins_num,
                      !.key_list = From(@, ins_num),
                      !.keys_set = @ \cup Range(ins_list),
                      !.list = @ \o RowsOf("+", ins_list)]

\* gen_searches with the keys it draws, one for each row
gen_searches(S, keys) ==
    IF S.SEARCH = 0 THEN S
    ELSE [S EXCEPT !.SEARCH = @ - Len(keys),
                   !.list = @ \o RowsOf("?", keys)]

\* the keys a search row can get
SearchKeys(S) ==
    1..Min(MaxSearchKey, IF S.keys_set # {} THEN 2 * Cardinality(S.keys_set)
                                             ELSE search_key_limit)

\* gen_deletions that leaves the deleted keys in keys_set
gen_deletions_keeps_keys(S, del_num, del_list) ==
    IF S.DELETE = 0 THEN S
    ELSE IF del_num > Cardinality(S.keys_set)
    THEN [S EXCEPT !.skipped = TRUE, !.returned_early = TRUE]
    ELSE [S EXCEPT !.DELETE = @ - del_num,
                   !.list = @ \o RowsOf("-", del_list)]

\* gen_deletions returning early also when the drawn number equals the
\* size of keys_set (>= for >)
gen_deletions_returns_on_equal(S, del_num, del_list) ==
    IF S.DELETE = 0 THEN S
    ELSE IF del_num >= Cardinality(S.keys_set)
    THEN [S EXCEPT !.skipped = TRUE, !.returned_early = TRUE]
    ELSE [S EXCEPT !.DELETE = @ - del_num,
                   !.keys_set = @ \ Range(del_list),
                   !.list = @ \o RowsOf("-", del_list)]

\* gen_deletions with the number it draws and the first del_num keys of
\* the shuffled keys_set
gen_deletions(S, del_num, del_list) ==
    IF S.DELETE = 0 THEN S
    ELSE IF del_num > Cardinality(S.keys_set)
    THEN [S EXCEPT !.skipped = TRUE, !.returned_early = TRUE]
    ELSE [S EXCEPT !.DELETE = @ - del_num,
                   !.keys_set = @ \ Range(del_list),
                   !.list = @ \o RowsOf("-", del_list)]

\* gen_data up to its while loop: the ValueError, or gen_keys and the
\* first test of the loop
gen_data_start(insertions, deletions, searches, key_list) ==
    LET S == [op |-> "gen_data", ok |-> TRUE, rec |-> None, list |-> <<>>,
              pc |-> "gen_insertions",
              INSERT |-> insertions, DELETE |-> deletions, SEARCH |-> searches,
              insertions |-> insertions, deletions |-> deletions,
              searches |-> searches,
              key_list |-> key_list, keys_set |-> {},
              before |-> insertions + deletions + searches,
              skipped |-> FALSE, returned_early |-> FALSE,
              looped |-> FALSE]
    IN IF deletions > insertions
       THEN [S EXCEPT !.ok = FALSE, !.pc = "raised", !.key_list = <<>>]
       ELSE IF Remaining(S) > 0 THEN S ELSE [S EXCEPT !.pc = "store_records"]

SioInit ==
    /\ engine = "siogen"
    /\ order = min_order
    /\ root = TreeNew.root
    /\ nodes = TreeNew.nodes
    /\ stats = TreeNew.stats
    /\ bucket_capacity = min_capacity
    /\ global_depth = HashNew(min_capacity).global_depth
    /\ directory = HashNew(min_capacity).directory
    /\ buckets = HashNew(min_capacity).buckets
    /\ hstats = HashNew(min_capacity).stats
    /\ \E i \in 0..MaxInsertions, d \in 0..(MaxInsertions + 1), s \in 0..MaxSearches :
          \E key_list \in Arrangements(0..(i - 1), i) :
             ret = gen_data_start(i, d, s, IF d > i THEN <<>> ELSE key_list)
    /\ kv = [k \in Keys |-> None]
    /\ everDeleted = FALSE

SioFrame == UNCHANGED <<engine, treeVars, hashVars, kv, everDeleted>>

\* the call of gen_insertions at the head of an iteration
GenInsertions ==
    /\ engine = "siogen" /\ ret.pc = "gen_insertions"
    /\ \E ins_num \in 1..Max(1, Len(ret.key_list)) :
          ret' = [gen_insertions([ret EXCEPT !.before = Remaining(ret),
                                             !.skipped = FALSE], ins_num)
                    EXCEPT !.pc = "gen_searches"]
    /\ SioFrame

GenSearches ==
    /\ engine = "siogen" /\ ret.pc = "gen_searches"
    /\ \E n \in 1..Max(1, ret.SEARCH) :
          \E keys \in [1..n -> SearchKeys(ret)] :
             ret' = [gen_searches(ret, keys) EXCEPT !.pc = "gen_deletions"]
    /\ SioFrame

\* the call of gen_deletions and the test of the while loop after it
GenDeletions ==
    /\ engine = "siogen" /\ ret.pc = "gen_deletions"
    /\ \E del_num \in 1..Max(1, ret.DELETE) :
          \E del_list \in Arrangements(ret.keys_set,
                                       Min(del_num, Cardinality(ret.keys_set))) :
             LET S == gen_deletions(ret, del_num, del_list)
             IN ret' = [S EXCEPT !.pc = IF Remaining(S) > 0 THEN "gen_insertions"
                                        ELSE "store_records",
                                 !.looped = TRUE]
    /\ SioFrame

StoreRecords ==
    /\ engine = "siogen" /\ ret.pc = "store_records"
    /\ ret' = [ret EXCEPT !.pc = "done"]
    /\ SioFrame

SioNext ==
    \/ GenInsertions
    \/ GenSearches
    \/ GenDeletions
    \/ StoreRecords

SpecSio == SioInit /\ [][SioNext]_vars

\* gen_data as a running program: it goes on while a step is left
SpecSioRun == SioInit /\ [][SioNext]_vars /\ WF_vars(SioNext)

SioOn == engine = "siogen"

\* C39: in every stream gen_data builds, each key is in at most one '+'
\* row, and every '-' row names a key of an earlier '+' row that no earlier
\* '-' row names (deletes only hit keys present at that point).
C39_StreamWellFormed ==
    SioOn =>
       LET rows == ret.list
       IN /\ \A i, j \in DOMAIN rows :
                (rows[i].OP = "+" /\ rows[j].OP = "+" /\ rows[i].A1 = rows[j].A1)
                   => i = j
          /\ \A j \in DOMAIN rows :
                rows[j].OP = "-" =>
                   /\ \E i \in 1..(j - 1) : rows[i].OP = "+" /\ rows[i].A1 = rows[j].A1
                   /\ \A i \in 1..(j - 1) :
                         ~(rows[i].OP = "-" /\ rows[i].A1 = rows[j].A1)

\* a finished stream with deletions in two different iterations: a '-' row,
\* a later '+' row and a '-' row after that
C39_Witness ==
    /\ SioOn /\ ret.pc = "done"
    /\ \E a, b, c \in DOMAIN ret.list :
          /\ a < b /\ b < c
          /\ ret.list[a].OP = "-" /\ ret.list[b].OP = "+" /\ ret.list[c].OP = "-"

\* the number of rows of rec_list with this OP
CountRows(rows, op) == Cardinality({i \in DOMAIN rows : rows[i].OP = op})

\* every completed iteration of the while loop has lowered INSERT + DELETE +
\* SEARCH, an early return of gen_deletions included; the counts never go
\* below zero; and gen_data is left with exactly the requested rows
SioProgress ==
    /\ ret.INSERT >= 0 /\ ret.DELETE >= 0 /\ ret.SEARCH >= 0
    /\ ret.deletions <= ret.insertions => ret.pc # "raised"
    /\ (ret.looped /\ ret.pc \in {"gen_insertions", "store_records", "done"})
          => Remaining(ret) < ret.before
    /\ (ret.skipped /\ ret.pc # "gen_deletions") => Remaining(ret) < ret.before
    /\ ret.pc \in {"store_records", "done"} =>
          /\ Remaining(ret) = 0
          /\ CountRows(ret.list, "+") = ret.insertions
          /\ CountRows(ret.list, "?") = ret.searches
          /\ CountRows(ret.list, "-") = ret.deletions
          /\ Len(ret.list) = ret.insertions + ret.searches + ret.deletions

\* C40: gen_data terminates for every outcome of its random choices when
\* the requested deletions do not exceed the requested insertions: every
\* iteration of the main loop lowers INSERT + DELETE + SEARCH (gen_deletions
\* returns early only in an iteration in which insertions or searches were
\* emitted), the loop is left, and then exactly the requested numbers of
\* '+', '?' and '-' rows have been emitted.
C40_GenDataTerminates ==
    /\ [](SioOn => SioProgress)
    /\ <>(SioOn /\ ret.pc \in {"done", "raised"})

\* gen_data has finished a run in which gen_deletions returned early and
\* deletions were emitted in a later iteration
C40_Witness ==
    /\ SioOn /\ ret.pc = "done"
    /\ ret.returned_early
    /\ ret.deletions >= 2 /\ ret.searches >= 1
    /\ CountRows(ret.list, "-") = ret.deletions
====
